---- MODULE Spec2Model ----
(***************************************************************************)
(* A model of the kernel-token program (programs/kernel-token/src/lib.rs): *)
(* the stake ledger with its reward accumulator, the timelocked fee and    *)
(* authority proposals, the LP vault bookkeeping and the burn and airdrop  *)
(* registries.  Every instruction is one atomic step: the runtime commits  *)
(* an instruction's account writes and token movements only when the       *)
(* handler returns Ok, so a failed instruction leaves the state as it was. *)
(***************************************************************************)
EXTENDS Integers, FiniteSets, Sequences, TLC

\* ------------------------------------------------------------------ bounds

\* The largest amount an instruction is called with.
MaxAmount == 2
\* The tokens each wallet holds at the start.
InitialBalance == 3
\* The most reward tokens ever deposited into the reflection pool.
MaxReflections == 2
\* The most tokens ever allocated to the LP vault.
MaxAllocated == 2
\* The most airdrop recipients ever registered.
MaxRecipients == 52
\* The number of successful instructions and clock advances of the
\* whole-program specification Spec.
MaxOps == 4

\* The counters of the program are u64 and its accumulator is u128.  Their
\* widths are scaled down to fit TLC's 32-bit integers: U64_MAX stands for
\* u64::MAX and U128_MAX_HI for the high limb of u128::MAX.  Arithmetic on
\* them is checked against these, as checked_add and checked_mul do.
U64_MAX == 1000000
U128_MAX_HI == 2000000000

\* The instructions processed once a counter is at the top of its width.
MaxOverflowOps == 3

\* --------------------------------------------------------------- constants

\* PRECISION (10^12) is PRECISION_ROOT * PRECISION_ROOT.  TLC's integers are
\* 32 bits wide, so a value scaled by PRECISION is kept as two limbs
\* [hi, lo] that stand for hi * PRECISION_ROOT + lo, with lo < PRECISION_ROOT.
PRECISION_ROOT == 1000000

TIMELOCK_DURATION == 24 * 60 * 60

\* u16::MAX + 1, the modulus of the fee shares' arithmetic.
U16_MODULUS == 65536

TOTAL_FEE_BPS == 500

MAX_AIRDROP_RECIPIENTS == 50

\* -------------------------------------------------------------- identities

Keys == {"k1", "k2"}
\* Pubkey::default(), the owner of an account that was never written.
NoKey == "none"

Amounts == 0..MaxAmount

\* The clock readings an instruction can see.
Times == {0, 10, 3600, 86399, 86400, 90000, 200000}

\* The fee triples instructions are called with: two that total 500, one
\* that totals 600, and one whose sum exceeds u16::MAX by exactly 500.
FeeTriples ==
    { <<200, 200, 100>>, <<100, 300, 100>>, <<200, 200, 200>>, <<65535, 1, 500>> }

\* The recipient counts airdrop is called with.
RecipientCounts == {0, 1, 2, 50, 51}

PoolAddresses == {"raydium"}

\* ------------------------------------------------------------------- state

VARIABLES
    config,            \* KernelConfig
    user_stake,        \* UserStake, one per owner key
    fee_proposal,      \* FeeProposal
    pending_transfer,  \* PendingAuthorityTransfer
    lp_vault,          \* LPVault
    lp_deployments,    \* the LPDeployment accounts created so far
    burn_record,       \* BurnRecord
    airdrop_state,     \* AirdropState
    tokens,            \* the token accounts' balances
    now,               \* Clock::get()?.unix_timestamp
    ops,               \* steps taken, counted by Spec alone
    calc               \* one call of calculate_pending_rewards: its
                       \* arguments and, once done, its result

vars == << config, user_stake, fee_proposal, pending_transfer, lp_vault,
           lp_deployments, burn_record, airdrop_state, tokens, now, ops, calc >>

\* The accounts and balances an instruction reads and writes, as one record.
World ==
    [ config |-> config, user_stake |-> user_stake, fee_proposal |-> fee_proposal,
      pending_transfer |-> pending_transfer, lp_vault |-> lp_vault,
      lp_deployments |-> lp_deployments, burn_record |-> burn_record,
      airdrop_state |-> airdrop_state, tokens |-> tokens, now |-> now ]

\* ------------------------------------------------- fixed-point accumulator

ApsZero == [hi |-> 0, lo |-> 0]

ApsIsZero(a) == a.hi = 0 /\ a.lo = 0

ApsLeq(a, b) == a.hi < b.hi \/ (a.hi = b.hi /\ a.lo <= b.lo)

\* accumulated_per_share.checked_add(reward_per_share)
ApsAdd(a, b) ==
    LET lo == a.lo + b.lo
    IN  [hi |-> a.hi + b.hi + (lo \div PRECISION_ROOT), lo |-> lo % PRECISION_ROOT]

\* reward_per_share to six decimal places only.
reward_per_share_truncated(amount, total_staked) ==
    [hi |-> (amount * PRECISION_ROOT) \div total_staked, lo |-> 0]

\* (amount as u128) * PRECISION / (total_staked as u128), by long division.
reward_per_share(amount, total_staked) ==
    LET n1 == amount * PRECISION_ROOT
        q1 == n1 \div total_staked
        r1 == n1 % total_staked
    IN  [hi |-> q1, lo |-> (r1 * PRECISION_ROOT) \div total_staked]

\* a.checked_add(b) on u64 is None.
checked_add_fails(a, b) == a > U64_MAX - b

\* a.checked_mul(b) on u64 is None.
checked_mul_fails(a, b) == a > 0 /\ b > U64_MAX \div a

\* a.checked_add(b) on the u128 accumulator is None.
aps_checked_add_fails(a, b) ==
    b.hi + ((a.lo + b.lo) \div PRECISION_ROOT) > U128_MAX_HI - a.hi

\* (user_staked as u128).checked_mul(accumulated_per_share) is None.
aps_checked_mul_fails(user_staked, accumulated_per_share) ==
    /\ user_staked > 0
    /\ \/ accumulated_per_share.hi > U128_MAX_HI \div user_staked
       \/ user_staked * accumulated_per_share.hi
              + ((user_staked * accumulated_per_share.lo) \div PRECISION_ROOT)
              > U128_MAX_HI

calculate_reward_debt(user_staked, accumulated_per_share) ==
    ( user_staked * accumulated_per_share.hi
      + ((user_staked * accumulated_per_share.lo) \div PRECISION_ROOT) )
    \div PRECISION_ROOT

\* calculate_pending_rewards with a plain, not a saturating, subtraction.
calculate_pending_rewards_unclamped(user_staked, accumulated_per_share, reward_debt) ==
    IF user_staked = 0 THEN 0
    ELSE calculate_reward_debt(user_staked, accumulated_per_share) - reward_debt

calculate_pending_rewards(user_staked, accumulated_per_share, reward_debt) ==
    IF user_staked = 0 THEN 0
    ELSE LET accumulated == calculate_reward_debt(user_staked, accumulated_per_share)
         IN  IF accumulated >= reward_debt THEN accumulated - reward_debt ELSE 0

\* ------------------------------------------------------------ fee checking

\* a + b in u16.  On overflow a build with overflow checks panics and a
\* build without them wraps around; wraps says which build runs.
add_u16(a, b, wraps) ==
    IF a + b < U16_MODULUS THEN [panic |-> FALSE, v |-> a + b]
    ELSE IF wraps THEN [panic |-> FALSE, v |-> (a + b) % U16_MODULUS]
    ELSE [panic |-> TRUE, v |-> 0]

\* require!(reflection_share_bps + lp_share_bps + burn_share_bps == 500, ...)
fee_sum_result(r, l, b, wraps) ==
    LET s1 == add_u16(r, l, wraps)
        s2 == add_u16(s1.v, b, wraps)
    IN  IF s1.panic \/ s2.panic THEN "Panic"
        ELSE IF s2.v = TOTAL_FEE_BPS THEN "Ok"
        ELSE "InvalidFeeConfig"

\* ----------------------------------------------------------------- results

Ok(w) == [err |-> "Ok", w |-> w]
Fail(w, e) == [err |-> e, w |-> w]

\* Abort with the handler's writes so far left standing.
Abort_keeps_writes(w, written, e) == [err |-> e, w |-> written]

\* A CPI that fails after the handler has written to its accounts: the `?`
\* returns the error, the instruction fails and the runtime discards the
\* writes, so the accounts are as in w and not as in written.
Abort(w, written, e) == [err |-> e, w |-> w]

\* transfer_checked: the token program refuses a transfer the source
\* account cannot cover.
CanPay(w, account, amount) == w.tokens[account] >= amount

Move(tk, from, to, amount) ==
    [tk EXCEPT ![from] = @ - amount, ![to] = @ + amount]

\* ------------------------------------------------------------- initial state

NoConfig ==
    [ initialized |-> FALSE, authority |-> NoKey,
      reflection_share_bps |-> 0, lp_share_bps |-> 0, burn_share_bps |-> 0,
      total_staked |-> 0, total_reflections_distributed |-> 0,
      pending_reflections |-> 0, accumulated_per_share |-> ApsZero,
      is_paused |-> FALSE ]

NoUserStake ==
    [ initialized |-> FALSE, owner |-> NoKey, staked_amount |-> 0, stake_time |-> 0,
      pending_rewards |-> 0, total_claimed |-> 0, reward_debt |-> 0 ]

NoFeeProposal ==
    [ initialized |-> FALSE, proposer |-> NoKey,
      reflection_share_bps |-> 0, lp_share_bps |-> 0, burn_share_bps |-> 0,
      proposed_at |-> 0, executed |-> FALSE, cancelled |-> FALSE ]

NoPendingTransfer ==
    [ initialized |-> FALSE, proposer |-> NoKey, new_authority |-> NoKey,
      proposed_at |-> 0, executed |-> FALSE, cancelled |-> FALSE ]

NoLPVault ==
    [ initialized |-> FALSE, authority |-> NoKey, total_allocated |-> 0,
      total_deployed |-> 0, pending_deployment |-> 0, last_deployment_time |-> 0 ]

NoBurnRecord ==
    [ initialized |-> FALSE, total_burned |-> 0, burn_count |-> 0, last_burn_time |-> 0 ]

NoAirdropState ==
    [ initialized |-> FALSE, total_airdropped |-> 0, recipient_count |-> 0 ]

TokenAccounts == Keys \cup {"staking_vault", "reflection_pool", "lp_vault_token"}

\* No call of calculate_pending_rewards under way.
NoCalc ==
    [ user_staked |-> 0, accumulated_per_share |-> ApsZero, reward_debt |-> 0,
      done |-> FALSE, pending |-> 0 ]

Init ==
    /\ calc = NoCalc
    /\ config = NoConfig
    /\ user_stake = [k \in Keys |-> NoUserStake]
    /\ fee_proposal = NoFeeProposal
    /\ pending_transfer = NoPendingTransfer
    /\ lp_vault = NoLPVault
    /\ lp_deployments = {}
    /\ burn_record = NoBurnRecord
    /\ airdrop_state = NoAirdropState
    /\ tokens = [a \in TokenAccounts |-> IF a \in Keys THEN InitialBalance ELSE 0]
    /\ now = 0
    /\ ops = 0

\* ---------------------------------------------------------------- initialize

\* initialize: the config account is created here (init), once per mint.
initialize(w, signer, r, l, b, wraps) ==
    IF w.config.initialized THEN Fail(w, "AlreadyInUse")
    ELSE IF fee_sum_result(r, l, b, wraps) # "Ok" THEN Fail(w, fee_sum_result(r, l, b, wraps))
    ELSE Ok([w EXCEPT !.config =
                [ initialized |-> TRUE, authority |-> signer,
                  reflection_share_bps |-> r, lp_share_bps |-> l, burn_share_bps |-> b,
                  total_staked |-> 0, total_reflections_distributed |-> 0,
                  pending_reflections |-> 0, accumulated_per_share |-> ApsZero,
                  is_paused |-> FALSE ]])

\* ---------------------------------------------------------------- stake ledger

\* stake_require without the pause check.
stake_require_unpaused(cfg, amount) ==
    IF ~(amount > 0) THEN "ZeroAmount" ELSE "Ok"

\* The two require! lines that open stake.
stake_require(cfg, amount) ==
    IF ~(amount > 0) THEN "ZeroAmount"
    ELSE IF cfg.is_paused THEN "ProgramPaused"
    ELSE "Ok"

\* The position's pending_rewards after the top-up that opens stake.
stake_bank(us, cfg) ==
    IF us.staked_amount > 0 /\ ~ApsIsZero(cfg.accumulated_per_share)
    THEN us.pending_rewards
         + calculate_pending_rewards(us.staked_amount, cfg.accumulated_per_share, us.reward_debt)
    ELSE us.pending_rewards

\* stake_total with the pool total left as it was.
stake_total_stale(cfg, amount) == cfg.total_staked

\* config.total_staked.checked_add(amount)
stake_total(cfg, amount) == cfg.total_staked + amount

\* stake_update with the debt taken on the amount staked before the
\* addition.
stake_update_stale_debt(w, signer, amount) ==
    LET us  == w.user_stake[signer]
        cfg == w.config
        staked == us.staked_amount + amount
    IN  [w EXCEPT
           !.user_stake[signer] =
               [ initialized |-> TRUE, owner |-> signer, staked_amount |-> staked,
                 stake_time |-> w.now, pending_rewards |-> stake_bank(us, cfg),
                 total_claimed |-> us.total_claimed,
                 reward_debt |->
                     calculate_reward_debt(us.staked_amount, cfg.accumulated_per_share) ],
           !.config.total_staked = stake_total(cfg, amount),
           !.tokens = Move(@, signer, "staking_vault", amount)]

\* An unwrap() of the top-up that opens stake panics.
stake_bank_panics(us, cfg) ==
    /\ us.staked_amount > 0
    /\ ~ApsIsZero(cfg.accumulated_per_share)
    /\ \/ aps_checked_mul_fails(us.staked_amount, cfg.accumulated_per_share)
       \/ checked_add_fails(us.pending_rewards,
                            calculate_pending_rewards(us.staked_amount,
                                                      cfg.accumulated_per_share,
                                                      us.reward_debt))

\* An unwrap() of stake's updates after the transfer panics.
stake_update_panics(us, cfg, amount) ==
    \/ checked_add_fails(us.staked_amount, amount)
    \/ checked_add_fails(cfg.total_staked, amount)
    \/ aps_checked_mul_fails(us.staked_amount + amount, cfg.accumulated_per_share)

\* The position and the pool total once stake's transfer has gone through.
stake_update(w, signer, amount) ==
    LET us  == w.user_stake[signer]
        cfg == w.config
        staked == us.staked_amount + amount
    IN  [w EXCEPT
           !.user_stake[signer] =
               [ initialized |-> TRUE, owner |-> signer, staked_amount |-> staked,
                 stake_time |-> w.now, pending_rewards |-> stake_bank(us, cfg),
                 total_claimed |-> us.total_claimed,
                 reward_debt |-> calculate_reward_debt(staked, cfg.accumulated_per_share) ],
           !.config.total_staked = stake_total(cfg, amount),
           !.tokens = Move(@, signer, "staking_vault", amount)]

\* The accounts as stake has written them when it invokes the transfer:
\* the position has its pending_rewards topped up.
stake_banked(w, signer) ==
    [w EXCEPT !.user_stake[signer].pending_rewards =
                  stake_bank(w.user_stake[signer], w.config)]

\* stake, called by signer for the position derived from key pos.  The
\* position's address is derived from the signer (seeds), so another key's
\* position cannot be passed.
stake(w, signer, pos, amount) ==
    IF ~w.config.initialized THEN Fail(w, "AccountNotInitialized")
    ELSE IF pos # signer THEN Fail(w, "ConstraintSeeds")
    ELSE IF stake_require(w.config, amount) # "Ok" THEN Fail(w, stake_require(w.config, amount))
    ELSE IF stake_bank_panics(w.user_stake[signer], w.config) THEN Fail(w, "Panicked")
    ELSE IF ~CanPay(w, signer, amount)
         THEN Abort(w, stake_banked(w, signer), "TransferFailed")
    ELSE IF stake_update_panics(w.user_stake[signer], w.config, amount)
         THEN Abort(w, stake_banked(w, signer), "Panicked")
    ELSE Ok(stake_update(w, signer, amount))

\* unstake_require without the check against the staked amount.
unstake_require_unbounded(cfg, us, amount) ==
    IF ~(amount > 0) THEN "ZeroAmount" ELSE "Ok"

\* unstake_require with stake's pause check added.
unstake_require_paused(cfg, us, amount) ==
    IF ~(amount > 0) THEN "ZeroAmount"
    ELSE IF cfg.is_paused THEN "ProgramPaused"
    ELSE IF ~(us.staked_amount >= amount) THEN "InsufficientStake"
    ELSE "Ok"

\* The two require! lines that open unstake.
unstake_require(cfg, us, amount) ==
    IF ~(amount > 0) THEN "ZeroAmount"
    ELSE IF ~(us.staked_amount >= amount) THEN "InsufficientStake"
    ELSE "Ok"

\* An unwrap() of the top-up that opens unstake panics.
unstake_bank_panics(us, cfg) ==
    /\ ~ApsIsZero(cfg.accumulated_per_share)
    /\ \/ aps_checked_mul_fails(us.staked_amount, cfg.accumulated_per_share)
       \/ checked_add_fails(us.pending_rewards,
                            calculate_pending_rewards(us.staked_amount,
                                                      cfg.accumulated_per_share,
                                                      us.reward_debt))

\* An unwrap() of unstake's updates after the transfer panics.
unstake_update_panics(us, cfg, amount) ==
    aps_checked_mul_fails(us.staked_amount - amount, cfg.accumulated_per_share)

\* unstake_bank without the top-up.
unstake_bank_skipped(us, cfg) == us.pending_rewards

\* The position's pending_rewards after the top-up that opens unstake.
unstake_bank(us, cfg) ==
    IF ~ApsIsZero(cfg.accumulated_per_share)
    THEN us.pending_rewards
         + calculate_pending_rewards(us.staked_amount, cfg.accumulated_per_share, us.reward_debt)
    ELSE us.pending_rewards

\* unstake_update with the debt taken on the amount staked before the
\* withdrawal.
unstake_update_stale_debt(w, signer, amount) ==
    LET us  == w.user_stake[signer]
        cfg == w.config
        staked == us.staked_amount - amount
    IN  [w EXCEPT
           !.user_stake[signer] =
               [us EXCEPT !.staked_amount = staked,
                          !.pending_rewards = unstake_bank(us, cfg),
                          !.reward_debt =
                              calculate_reward_debt(us.staked_amount,
                                                    cfg.accumulated_per_share)],
           !.config.total_staked = @ - amount,
           !.tokens = Move(@, "staking_vault", signer, amount)]

unstake_update(w, signer, amount) ==
    LET us  == w.user_stake[signer]
        cfg == w.config
        staked == us.staked_amount - amount
    IN  [w EXCEPT
           !.user_stake[signer] =
               [us EXCEPT !.staked_amount = staked,
                          !.pending_rewards = unstake_bank(us, cfg),
                          !.reward_debt = calculate_reward_debt(staked, cfg.accumulated_per_share)],
           !.config.total_staked = @ - amount,
           !.tokens = Move(@, "staking_vault", signer, amount)]

\* The accounts as unstake has written them when it invokes the transfer.
unstake_banked(w, signer) ==
    [w EXCEPT !.user_stake[signer].pending_rewards =
                  unstake_bank(w.user_stake[signer], w.config)]

\* unstake without the seeds and owner constraints on the position: the
\* signer draws on the position of pos and is paid.
unstake_from_any_position(w, signer, pos, amount) ==
    IF ~w.config.initialized THEN Fail(w, "AccountNotInitialized")
    ELSE IF ~w.user_stake[pos].initialized THEN Fail(w, "AccountNotInitialized")
    ELSE IF unstake_require(w.config, w.user_stake[pos], amount) # "Ok"
         THEN Fail(w, unstake_require(w.config, w.user_stake[pos], amount))
    ELSE IF ~CanPay(w, "staking_vault", amount)
         THEN Abort(w, unstake_banked(w, pos), "TransferFailed")
    ELSE Ok([unstake_update(w, pos, amount) EXCEPT
               !.tokens = Move(w.tokens, "staking_vault", signer, amount)])

unstake(w, signer, pos, amount) ==
    IF ~w.config.initialized THEN Fail(w, "AccountNotInitialized")
    ELSE IF pos # signer THEN Fail(w, "ConstraintSeeds")
    ELSE IF ~w.user_stake[pos].initialized THEN Fail(w, "AccountNotInitialized")
    ELSE IF w.user_stake[pos].owner # signer THEN Fail(w, "NotOwner")
    ELSE IF unstake_require(w.config, w.user_stake[pos], amount) # "Ok"
         THEN Fail(w, unstake_require(w.config, w.user_stake[pos], amount))
    ELSE IF unstake_bank_panics(w.user_stake[pos], w.config) THEN Fail(w, "Panicked")
    ELSE IF ~CanPay(w, "staking_vault", amount)
         THEN Abort(w, unstake_banked(w, signer), "TransferFailed")
    ELSE IF unstake_update_panics(w.user_stake[pos], w.config, amount)
         THEN Abort(w, unstake_banked(w, signer), "Panicked")
    ELSE Ok(unstake_update(w, signer, amount))

\* pending_rewards plus the accumulator-derived delta.
total_claimable(us, cfg) ==
    us.pending_rewards
    + calculate_pending_rewards(us.staked_amount, cfg.accumulated_per_share, us.reward_debt)

\* pending_reflections.saturating_sub(total_claimable)
saturating_sub(a, b) == IF a >= b THEN a - b ELSE 0

\* An unwrap() in the computation of total_claimable panics.
claim_total_panics(us, cfg) ==
    \/ aps_checked_mul_fails(us.staked_amount, cfg.accumulated_per_share)
    \/ checked_add_fails(us.pending_rewards,
                         calculate_pending_rewards(us.staked_amount,
                                                   cfg.accumulated_per_share,
                                                   us.reward_debt))

\* An unwrap() of claim's updates after the transfer panics.
claim_update_panics(us, cfg) ==
    \/ checked_add_fails(us.total_claimed, total_claimable(us, cfg))
    \/ checked_add_fails(cfg.total_reflections_distributed, total_claimable(us, cfg))

\* claim_update that starts the accumulator afresh after paying out.
claim_update_rebasing(w, signer) ==
    LET us  == w.user_stake[signer]
        cfg == w.config
        t   == total_claimable(us, cfg)
    IN  [w EXCEPT
           !.user_stake[signer] =
               [us EXCEPT !.pending_rewards = 0,
                          !.total_claimed = @ + t,
                          !.reward_debt = 0],
           !.config.accumulated_per_share = ApsZero,
           !.config.total_reflections_distributed = @ + t,
           !.config.pending_reflections = saturating_sub(@, t),
           !.tokens = Move(@, "reflection_pool", signer, t)]

claim_update(w, signer) ==
    LET us  == w.user_stake[signer]
        cfg == w.config
        t   == total_claimable(us, cfg)
    IN  [w EXCEPT
           !.user_stake[signer] =
               [us EXCEPT !.pending_rewards = 0,
                          !.total_claimed = @ + t,
                          !.reward_debt =
                              calculate_reward_debt(us.staked_amount, cfg.accumulated_per_share)],
           !.config.total_reflections_distributed = @ + t,
           !.config.pending_reflections = saturating_sub(@, t),
           !.tokens = Move(@, "reflection_pool", signer, t)]

claim_reflections(w, signer, pos) ==
    IF ~w.config.initialized THEN Fail(w, "AccountNotInitialized")
    ELSE IF pos # signer THEN Fail(w, "ConstraintSeeds")
    ELSE IF ~w.user_stake[pos].initialized THEN Fail(w, "AccountNotInitialized")
    ELSE IF w.user_stake[pos].owner # signer THEN Fail(w, "NotOwner")
    ELSE IF claim_total_panics(w.user_stake[pos], w.config) THEN Fail(w, "Panicked")
    ELSE IF ~(total_claimable(w.user_stake[pos], w.config) > 0) THEN Fail(w, "NothingToClaim")
    ELSE IF ~CanPay(w, "reflection_pool", total_claimable(w.user_stake[pos], w.config))
         THEN Fail(w, "TransferFailed")
    ELSE IF claim_update_panics(w.user_stake[pos], w.config) THEN Fail(w, "Panicked")
    ELSE Ok(claim_update(w, signer))

\* deposit_accumulate with the accumulator assigned, not added to.
deposit_accumulate_assign(cfg, amount) ==
    IF cfg.total_staked > 0
    THEN reward_per_share(amount, cfg.total_staked)
    ELSE cfg.accumulated_per_share

\* accumulated_per_share after a deposit of amount.
deposit_accumulate(cfg, amount) ==
    IF cfg.total_staked > 0
    THEN ApsAdd(cfg.accumulated_per_share, reward_per_share(amount, cfg.total_staked))
    ELSE cfg.accumulated_per_share

\* An unwrap() of deposit_reflections' updates after the transfer panics.
deposit_panics(cfg, amount) ==
    \/ /\ cfg.total_staked > 0
       /\ aps_checked_add_fails(cfg.accumulated_per_share,
                                reward_per_share(amount, cfg.total_staked))
    \/ checked_add_fails(cfg.pending_reflections, amount)

deposit_reflections(w, signer, amount) ==
    IF ~w.config.initialized THEN Fail(w, "AccountNotInitialized")
    ELSE IF w.config.authority # signer THEN Fail(w, "NotAuthority")
    ELSE IF ~(amount > 0) THEN Fail(w, "ZeroAmount")
    ELSE IF ~CanPay(w, signer, amount) THEN Fail(w, "TransferFailed")
    ELSE IF deposit_panics(w.config, amount) THEN Fail(w, "Panicked")
    ELSE Ok([w EXCEPT
               !.config.accumulated_per_share = deposit_accumulate(w.config, amount),
               !.config.pending_reflections = @ + amount,
               !.tokens = Move(@, signer, "reflection_pool", amount)])

\* set_paused without the authority constraint on its config account.
set_paused_by_anyone(w, signer, paused) ==
    IF ~w.config.initialized THEN Fail(w, "AccountNotInitialized")
    ELSE Ok([w EXCEPT !.config.is_paused = paused])

set_paused(w, signer, paused) ==
    IF ~w.config.initialized THEN Fail(w, "AccountNotInitialized")
    ELSE IF w.config.authority # signer THEN Fail(w, "NotAuthority")
    ELSE Ok([w EXCEPT !.config.is_paused = paused])

\* ------------------------------------------------------------------ registries

\* burn_tokens that leaves burn_count as it was.
burn_tokens_uncounted(w, signer, amount) ==
    IF ~w.config.initialized THEN Fail(w, "AccountNotInitialized")
    ELSE IF ~(amount > 0) THEN Fail(w, "ZeroAmount")
    ELSE IF ~CanPay(w, signer, amount) THEN Fail(w, "BurnFailed")
    ELSE Ok([w EXCEPT
               !.tokens[signer] = @ - amount,
               !.burn_record =
                   [ initialized |-> TRUE,
                     total_burned |-> w.burn_record.total_burned + amount,
                     burn_count |-> w.burn_record.burn_count,
                     last_burn_time |-> w.now ]])

\* airdrop that also pays the first recipient out of the signer's account.
airdrop_with_transfer(w, signer, n, amount_per_recipient) ==
    IF ~w.config.initialized THEN Fail(w, "AccountNotInitialized")
    ELSE IF w.config.authority # signer THEN Fail(w, "NotAuthority")
    ELSE IF ~(n <= MAX_AIRDROP_RECIPIENTS) THEN Fail(w, "TooManyRecipients")
    ELSE IF ~(amount_per_recipient > 0) THEN Fail(w, "ZeroAmount")
    ELSE Ok([w EXCEPT
               !.tokens =
                   IF n > 0 /\ CanPay(w, signer, amount_per_recipient)
                   THEN Move(@, signer, CHOOSE k \in Keys : k # signer,
                             amount_per_recipient)
                   ELSE @,
               !.airdrop_state =
                   [ initialized |-> TRUE,
                     total_airdropped |->
                         w.airdrop_state.total_airdropped + n * amount_per_recipient,
                     recipient_count |-> w.airdrop_state.recipient_count + n ]])

\* airdrop that counts one recipient per call, whatever the vector's length.
airdrop_one_recipient(w, signer, n, amount_per_recipient) ==
    IF ~w.config.initialized THEN Fail(w, "AccountNotInitialized")
    ELSE IF w.config.authority # signer THEN Fail(w, "NotAuthority")
    ELSE IF ~(n <= MAX_AIRDROP_RECIPIENTS) THEN Fail(w, "TooManyRecipients")
    ELSE IF ~(amount_per_recipient > 0) THEN Fail(w, "ZeroAmount")
    ELSE Ok([w EXCEPT
               !.airdrop_state =
                   [ initialized |-> TRUE,
                     total_airdropped |->
                         w.airdrop_state.total_airdropped + n * amount_per_recipient,
                     recipient_count |-> w.airdrop_state.recipient_count + 1 ]])

\* burn_tokens: the config account carries no authority constraint here;
\* the tokens burnt are the signer's own.
\* burn_tokens with wrapping_add in place of checked_add(...).unwrap().
burn_tokens_wrapping(w, signer, amount) ==
    IF ~w.config.initialized THEN Fail(w, "AccountNotInitialized")
    ELSE IF ~(amount > 0) THEN Fail(w, "ZeroAmount")
    ELSE IF ~CanPay(w, signer, amount) THEN Fail(w, "BurnFailed")
    ELSE Ok([w EXCEPT
               !.tokens[signer] = @ - amount,
               !.burn_record =
                   [ initialized |-> TRUE,
                     total_burned |-> (w.burn_record.total_burned + amount) % (U64_MAX + 1),
                     burn_count |-> (w.burn_record.burn_count + 1) % (U64_MAX + 1),
                     last_burn_time |-> w.now ]])

\* An unwrap() of burn_tokens' updates after the burn panics.
burn_panics(br, amount) ==
    \/ checked_add_fails(br.total_burned, amount)
    \/ checked_add_fails(br.burn_count, 1)

burn_tokens(w, signer, amount) ==
    IF ~w.config.initialized THEN Fail(w, "AccountNotInitialized")
    ELSE IF ~(amount > 0) THEN Fail(w, "ZeroAmount")
    ELSE IF ~CanPay(w, signer, amount) THEN Fail(w, "BurnFailed")
    ELSE IF burn_panics(w.burn_record, amount) THEN Fail(w, "Panicked")
    ELSE Ok([w EXCEPT
               !.tokens[signer] = @ - amount,
               !.burn_record =
                   [ initialized |-> TRUE,
                     total_burned |-> w.burn_record.total_burned + amount,
                     burn_count |-> w.burn_record.burn_count + 1,
                     last_burn_time |-> w.now ]])

\* airdrop, with n the length of the recipients vector.
\* An unwrap() of airdrop's total or of its two updates panics.
airdrop_panics(st, n, amount_per_recipient) ==
    \/ checked_mul_fails(n, amount_per_recipient)
    \/ checked_add_fails(st.total_airdropped, n * amount_per_recipient)
    \/ checked_add_fails(st.recipient_count, n)

airdrop(w, signer, n, amount_per_recipient) ==
    IF ~w.config.initialized THEN Fail(w, "AccountNotInitialized")
    ELSE IF w.config.authority # signer THEN Fail(w, "NotAuthority")
    ELSE IF ~(n <= MAX_AIRDROP_RECIPIENTS) THEN Fail(w, "TooManyRecipients")
    ELSE IF ~(amount_per_recipient > 0) THEN Fail(w, "ZeroAmount")
    ELSE IF airdrop_panics(w.airdrop_state, n, amount_per_recipient) THEN Fail(w, "Panicked")
    ELSE Ok([w EXCEPT
               !.airdrop_state =
                   [ initialized |-> TRUE,
                     total_airdropped |->
                         w.airdrop_state.total_airdropped + n * amount_per_recipient,
                     recipient_count |-> w.airdrop_state.recipient_count + n ]])

\* --------------------------------------------------------------- fee timelock

\* propose_fee_update on an account that is created anew once the proposal
\* in it has been executed or cancelled.
propose_fee_update_after_terminal(w, signer, r, l, b, wraps) ==
    IF ~w.config.initialized THEN Fail(w, "AccountNotInitialized")
    ELSE IF w.config.authority # signer THEN Fail(w, "NotAuthority")
    ELSE IF w.fee_proposal.initialized
            /\ ~w.fee_proposal.executed /\ ~w.fee_proposal.cancelled
         THEN Fail(w, "AlreadyInUse")
    ELSE IF fee_sum_result(r, l, b, wraps) # "Ok" THEN Fail(w, fee_sum_result(r, l, b, wraps))
    ELSE Ok([w EXCEPT !.fee_proposal =
                [ initialized |-> TRUE, proposer |-> signer,
                  reflection_share_bps |-> r, lp_share_bps |-> l, burn_share_bps |-> b,
                  proposed_at |-> w.now, executed |-> FALSE, cancelled |-> FALSE ]])

\* propose_fee_update that writes the proposed shares to the config at once.
propose_fee_update_applied(w, signer, r, l, b, wraps) ==
    IF ~w.config.initialized THEN Fail(w, "AccountNotInitialized")
    ELSE IF w.config.authority # signer THEN Fail(w, "NotAuthority")
    ELSE IF w.fee_proposal.initialized THEN Fail(w, "AlreadyInUse")
    ELSE IF fee_sum_result(r, l, b, wraps) # "Ok" THEN Fail(w, fee_sum_result(r, l, b, wraps))
    ELSE Ok([w EXCEPT
               !.config.reflection_share_bps = r,
               !.config.lp_share_bps = l,
               !.config.burn_share_bps = b,
               !.fee_proposal =
                [ initialized |-> TRUE, proposer |-> signer,
                  reflection_share_bps |-> r, lp_share_bps |-> l, burn_share_bps |-> b,
                  proposed_at |-> w.now, executed |-> FALSE, cancelled |-> FALSE ]])

\* propose_fee_update: the proposal account is created here (init) at an
\* address derived from the config alone.
propose_fee_update(w, signer, r, l, b, wraps) ==
    IF ~w.config.initialized THEN Fail(w, "AccountNotInitialized")
    ELSE IF w.config.authority # signer THEN Fail(w, "NotAuthority")
    ELSE IF w.fee_proposal.initialized THEN Fail(w, "AlreadyInUse")
    ELSE IF fee_sum_result(r, l, b, wraps) # "Ok" THEN Fail(w, fee_sum_result(r, l, b, wraps))
    ELSE Ok([w EXCEPT !.fee_proposal =
                [ initialized |-> TRUE, proposer |-> signer,
                  reflection_share_bps |-> r, lp_share_bps |-> l, burn_share_bps |-> b,
                  proposed_at |-> w.now, executed |-> FALSE, cancelled |-> FALSE ]])

\* execute_fee_require without the timelock check.
execute_fee_require_no_timelock(proposal, current_time) ==
    IF proposal.executed THEN "ProposalAlreadyExecuted"
    ELSE IF proposal.cancelled THEN "ProposalCancelled"
    ELSE "Ok"

\* execute_fee_require without the cancelled check.
execute_fee_require_no_cancel(proposal, current_time) ==
    IF proposal.executed THEN "ProposalAlreadyExecuted"
    ELSE IF ~(current_time - proposal.proposed_at >= TIMELOCK_DURATION) THEN "TimelockNotExpired"
    ELSE "Ok"

\* execute_fee_require without the executed check.
execute_fee_require_no_executed(proposal, current_time) ==
    IF proposal.cancelled THEN "ProposalCancelled"
    ELSE IF ~(current_time - proposal.proposed_at >= TIMELOCK_DURATION) THEN "TimelockNotExpired"
    ELSE "Ok"

\* execute_fee_require with a timelock that ends one second late.
execute_fee_require_exclusive(proposal, current_time) ==
    IF proposal.executed THEN "ProposalAlreadyExecuted"
    ELSE IF proposal.cancelled THEN "ProposalCancelled"
    ELSE IF ~(current_time - proposal.proposed_at > TIMELOCK_DURATION) THEN "TimelockNotExpired"
    ELSE "Ok"

\* The three require! lines of execute_fee_update.
execute_fee_require(proposal, current_time) ==
    IF proposal.executed THEN "ProposalAlreadyExecuted"
    ELSE IF proposal.cancelled THEN "ProposalCancelled"
    ELSE IF ~(current_time - proposal.proposed_at >= TIMELOCK_DURATION) THEN "TimelockNotExpired"
    ELSE "Ok"

\* execute_fee_update without the proposer constraint on the proposal
\* account.
execute_fee_update_by_any_authority(w, signer) ==
    IF ~w.config.initialized THEN Fail(w, "AccountNotInitialized")
    ELSE IF w.config.authority # signer THEN Fail(w, "NotAuthority")
    ELSE IF ~w.fee_proposal.initialized THEN Fail(w, "AccountNotInitialized")
    ELSE IF execute_fee_require(w.fee_proposal, w.now) # "Ok"
         THEN Fail(w, execute_fee_require(w.fee_proposal, w.now))
    ELSE Ok([w EXCEPT
               !.config.reflection_share_bps = w.fee_proposal.reflection_share_bps,
               !.config.lp_share_bps = w.fee_proposal.lp_share_bps,
               !.config.burn_share_bps = w.fee_proposal.burn_share_bps,
               !.fee_proposal.executed = TRUE])

execute_fee_update(w, signer) ==
    IF ~w.config.initialized THEN Fail(w, "AccountNotInitialized")
    ELSE IF w.config.authority # signer THEN Fail(w, "NotAuthority")
    ELSE IF ~w.fee_proposal.initialized THEN Fail(w, "AccountNotInitialized")
    ELSE IF w.fee_proposal.proposer # signer THEN Fail(w, "NotAuthority")
    ELSE IF execute_fee_require(w.fee_proposal, w.now) # "Ok"
         THEN Fail(w, execute_fee_require(w.fee_proposal, w.now))
    ELSE Ok([w EXCEPT
               !.config.reflection_share_bps = w.fee_proposal.reflection_share_bps,
               !.config.lp_share_bps = w.fee_proposal.lp_share_bps,
               !.config.burn_share_bps = w.fee_proposal.burn_share_bps,
               !.fee_proposal.executed = TRUE])

\* cancel_fee_proposal without its require! line.
cancel_fee_proposal_after_execute(w, signer) ==
    IF ~w.config.initialized THEN Fail(w, "AccountNotInitialized")
    ELSE IF w.config.authority # signer THEN Fail(w, "NotAuthority")
    ELSE IF ~w.fee_proposal.initialized THEN Fail(w, "AccountNotInitialized")
    ELSE Ok([w EXCEPT !.fee_proposal.cancelled = TRUE])

cancel_fee_proposal(w, signer) ==
    IF ~w.config.initialized THEN Fail(w, "AccountNotInitialized")
    ELSE IF w.config.authority # signer THEN Fail(w, "NotAuthority")
    ELSE IF ~w.fee_proposal.initialized THEN Fail(w, "AccountNotInitialized")
    ELSE IF w.fee_proposal.executed THEN Fail(w, "ProposalAlreadyExecuted")
    ELSE Ok([w EXCEPT !.fee_proposal.cancelled = TRUE])

\* update_fees that also hands the pool to the guardian.
update_fees_hands_over(w, signer, guardian, r, l, b, wraps) ==
    IF guardian = NoKey THEN Fail(w, "AccountNotSigner")
    ELSE IF ~w.config.initialized THEN Fail(w, "AccountNotInitialized")
    ELSE IF w.config.authority # signer THEN Fail(w, "NotAuthority")
    ELSE IF fee_sum_result(r, l, b, wraps) # "Ok" THEN Fail(w, fee_sum_result(r, l, b, wraps))
    ELSE Ok([w EXCEPT
               !.config.authority = guardian,
               !.config.reflection_share_bps = r,
               !.config.lp_share_bps = l,
               !.config.burn_share_bps = b])

\* update_fees: the guardian account is any second signer of the
\* transaction; NoKey stands for a transaction without one.
update_fees(w, signer, guardian, r, l, b, wraps) ==
    IF guardian = NoKey THEN Fail(w, "AccountNotSigner")
    ELSE IF ~w.config.initialized THEN Fail(w, "AccountNotInitialized")
    ELSE IF w.config.authority # signer THEN Fail(w, "NotAuthority")
    ELSE IF fee_sum_result(r, l, b, wraps) # "Ok" THEN Fail(w, fee_sum_result(r, l, b, wraps))
    ELSE Ok([w EXCEPT
               !.config.reflection_share_bps = r,
               !.config.lp_share_bps = l,
               !.config.burn_share_bps = b])

\* --------------------------------------------------------- authority timelock

\* propose_authority_transfer on an account that may exist already
\* (init_if_needed in place of init).
propose_authority_transfer_overwriting(w, signer, new_authority) ==
    IF ~w.config.initialized THEN Fail(w, "AccountNotInitialized")
    ELSE IF w.config.authority # signer THEN Fail(w, "NotAuthority")
    ELSE Ok([w EXCEPT !.pending_transfer =
                [ initialized |-> TRUE, proposer |-> signer, new_authority |-> new_authority,
                  proposed_at |-> w.now, executed |-> FALSE, cancelled |-> FALSE ]])

\* propose_authority_transfer: the transfer account is created here (init)
\* at an address derived from the config alone.
propose_authority_transfer(w, signer, new_authority) ==
    IF ~w.config.initialized THEN Fail(w, "AccountNotInitialized")
    ELSE IF w.config.authority # signer THEN Fail(w, "NotAuthority")
    ELSE IF w.pending_transfer.initialized THEN Fail(w, "AlreadyInUse")
    ELSE Ok([w EXCEPT !.pending_transfer =
                [ initialized |-> TRUE, proposer |-> signer, new_authority |-> new_authority,
                  proposed_at |-> w.now, executed |-> FALSE, cancelled |-> FALSE ]])

\* The three require! lines of execute_authority_transfer.
execute_authority_require(transfer, current_time) ==
    IF transfer.executed THEN "AuthorityTransferAlreadyExecuted"
    ELSE IF transfer.cancelled THEN "AuthorityTransferCancelled"
    ELSE IF ~(current_time - transfer.proposed_at >= TIMELOCK_DURATION) THEN "TimelockNotExpired"
    ELSE "Ok"

\* execute_authority_transfer that also lifts the pause.
execute_authority_transfer_unpausing(w, signer) ==
    IF ~w.config.initialized THEN Fail(w, "AccountNotInitialized")
    ELSE IF w.config.authority # signer THEN Fail(w, "NotAuthority")
    ELSE IF ~w.pending_transfer.initialized THEN Fail(w, "AccountNotInitialized")
    ELSE IF w.pending_transfer.proposer # signer THEN Fail(w, "NotAuthority")
    ELSE IF execute_authority_require(w.pending_transfer, w.now) # "Ok"
         THEN Fail(w, execute_authority_require(w.pending_transfer, w.now))
    ELSE Ok([w EXCEPT
               !.config.authority = w.pending_transfer.new_authority,
               !.config.is_paused = ~@,
               !.pending_transfer.executed = TRUE])

execute_authority_transfer(w, signer) ==
    IF ~w.config.initialized THEN Fail(w, "AccountNotInitialized")
    ELSE IF w.config.authority # signer THEN Fail(w, "NotAuthority")
    ELSE IF ~w.pending_transfer.initialized THEN Fail(w, "AccountNotInitialized")
    ELSE IF w.pending_transfer.proposer # signer THEN Fail(w, "NotAuthority")
    ELSE IF execute_authority_require(w.pending_transfer, w.now) # "Ok"
         THEN Fail(w, execute_authority_require(w.pending_transfer, w.now))
    ELSE Ok([w EXCEPT
               !.config.authority = w.pending_transfer.new_authority,
               !.pending_transfer.executed = TRUE])

\* cancel_authority_transfer that is refused once the delay has passed.
cancel_authority_transfer_before_expiry(w, signer) ==
    IF ~w.config.initialized THEN Fail(w, "AccountNotInitialized")
    ELSE IF w.config.authority # signer THEN Fail(w, "NotAuthority")
    ELSE IF ~w.pending_transfer.initialized THEN Fail(w, "AccountNotInitialized")
    ELSE IF w.pending_transfer.executed THEN Fail(w, "AuthorityTransferAlreadyExecuted")
    ELSE IF w.now - w.pending_transfer.proposed_at >= TIMELOCK_DURATION
         THEN Fail(w, "TimelockNotExpired")
    ELSE Ok([w EXCEPT !.pending_transfer.cancelled = TRUE])

cancel_authority_transfer(w, signer) ==
    IF ~w.config.initialized THEN Fail(w, "AccountNotInitialized")
    ELSE IF w.config.authority # signer THEN Fail(w, "NotAuthority")
    ELSE IF ~w.pending_transfer.initialized THEN Fail(w, "AccountNotInitialized")
    ELSE IF w.pending_transfer.executed THEN Fail(w, "AuthorityTransferAlreadyExecuted")
    ELSE Ok([w EXCEPT !.pending_transfer.cancelled = TRUE])

\* -------------------------------------------------------------------- LP vault

initialize_lp_vault(w, signer) ==
    IF ~w.config.initialized THEN Fail(w, "AccountNotInitialized")
    ELSE IF w.config.authority # signer THEN Fail(w, "NotAuthority")
    ELSE IF w.lp_vault.initialized THEN Fail(w, "AlreadyInUse")
    ELSE Ok([w EXCEPT !.lp_vault =
                [ initialized |-> TRUE, authority |-> signer, total_allocated |-> 0,
                  total_deployed |-> 0, pending_deployment |-> 0,
                  last_deployment_time |-> 0 ]])

\* allocate_to_lp that funds the LP vault out of the staking vault.
allocate_from_staking_vault(w, signer, amount) ==
    IF ~w.config.initialized THEN Fail(w, "AccountNotInitialized")
    ELSE IF w.config.authority # signer THEN Fail(w, "NotAuthority")
    ELSE IF ~w.lp_vault.initialized THEN Fail(w, "AccountNotInitialized")
    ELSE IF ~(amount > 0) THEN Fail(w, "ZeroAmount")
    ELSE IF ~CanPay(w, "staking_vault", amount) THEN Fail(w, "TransferFailed")
    ELSE Ok([w EXCEPT
               !.lp_vault.total_allocated = @ + amount,
               !.lp_vault.pending_deployment = @ + amount,
               !.tokens = Move(@, "staking_vault", "lp_vault_token", amount)])

\* An unwrap() of allocate_to_lp's updates after the transfer panics.
allocate_panics(vault, amount) ==
    \/ checked_add_fails(vault.total_allocated, amount)
    \/ checked_add_fails(vault.pending_deployment, amount)

allocate_to_lp(w, signer, amount) ==
    IF ~w.config.initialized THEN Fail(w, "AccountNotInitialized")
    ELSE IF w.config.authority # signer THEN Fail(w, "NotAuthority")
    ELSE IF ~w.lp_vault.initialized THEN Fail(w, "AccountNotInitialized")
    ELSE IF ~(amount > 0) THEN Fail(w, "ZeroAmount")
    ELSE IF ~CanPay(w, signer, amount) THEN Fail(w, "TransferFailed")
    ELSE IF allocate_panics(w.lp_vault, amount) THEN Fail(w, "Panicked")
    ELSE Ok([w EXCEPT
               !.lp_vault.total_allocated = @ + amount,
               !.lp_vault.pending_deployment = @ + amount,
               !.tokens = Move(@, signer, "lp_vault_token", amount)])

\* lp_require without the check against pending_deployment.
lp_require_unbounded(vault, amount) ==
    IF ~(amount > 0) THEN "ZeroAmount" ELSE "Ok"

\* The require! lines shared by record_lp_deployment and
\* withdraw_from_lp_vault.
lp_require(vault, amount) ==
    IF ~(amount > 0) THEN "ZeroAmount"
    ELSE IF ~(vault.pending_deployment >= amount) THEN "InsufficientLPFunds"
    ELSE "Ok"

\* record_lp_deployment: the deployment account is created (init) at an
\* address derived from the vault's total_deployed before the call.
\* The unwrap() of record_lp_deployment's total_deployed update panics.
record_panics(vault, amount) == checked_add_fails(vault.total_deployed, amount)

record_lp_deployment(w, signer, amount, lp_tokens_received, pool_address) ==
    IF ~w.config.initialized THEN Fail(w, "AccountNotInitialized")
    ELSE IF w.config.authority # signer THEN Fail(w, "NotAuthority")
    ELSE IF ~w.lp_vault.initialized THEN Fail(w, "AccountNotInitialized")
    ELSE IF \E d \in w.lp_deployments : d.seed = w.lp_vault.total_deployed
         THEN Fail(w, "AlreadyInUse")
    ELSE IF lp_require(w.lp_vault, amount) # "Ok" THEN Fail(w, lp_require(w.lp_vault, amount))
    ELSE IF record_panics(w.lp_vault, amount) THEN Fail(w, "Panicked")
    ELSE Ok([w EXCEPT
               !.lp_vault.pending_deployment = @ - amount,
               !.lp_vault.total_deployed = @ + amount,
               !.lp_vault.last_deployment_time = w.now,
               !.lp_deployments = @ \cup
                   { [ seed |-> w.lp_vault.total_deployed, pool_address |-> pool_address,
                       kernel_amount |-> amount, lp_tokens_received |-> lp_tokens_received,
                       deployed_at |-> w.now, withdrawn |-> FALSE ] }])

\* withdraw_update that takes the withdrawal off total_allocated as well.
withdraw_update_deallocating(vault, amount) ==
    [vault EXCEPT !.pending_deployment = @ - amount, !.total_allocated = @ - amount]

\* The vault's bookkeeping after a withdrawal of amount.
withdraw_update(vault, amount) ==
    [vault EXCEPT !.pending_deployment = @ - amount]

withdraw_from_lp_vault(w, signer, amount) ==
    IF ~w.config.initialized THEN Fail(w, "AccountNotInitialized")
    ELSE IF w.config.authority # signer THEN Fail(w, "NotAuthority")
    ELSE IF ~w.lp_vault.initialized THEN Fail(w, "AccountNotInitialized")
    ELSE IF lp_require(w.lp_vault, amount) # "Ok" THEN Fail(w, lp_require(w.lp_vault, amount))
    ELSE IF ~CanPay(w, "lp_vault_token", amount) THEN Fail(w, "TransferFailed")
    ELSE Ok([w EXCEPT
               !.lp_vault = withdraw_update(w.lp_vault, amount),
               !.tokens = Move(@, "lp_vault_token", signer, amount)])

\* --------------------------------------------------------------------- actions

\* The writes of an instruction that returned Ok.
Commit(w) ==
    /\ config' = w.config
    /\ user_stake' = w.user_stake
    /\ fee_proposal' = w.fee_proposal
    /\ pending_transfer' = w.pending_transfer
    /\ lp_vault' = w.lp_vault
    /\ lp_deployments' = w.lp_deployments
    /\ burn_record' = w.burn_record
    /\ airdrop_state' = w.airdrop_state
    /\ tokens' = w.tokens
    /\ now' = w.now

\* The amounts of LP tokens record_lp_deployment is called with.
LpTokenAmounts == {1}

InitializeStep ==
    \E s \in Keys, f \in FeeTriples, wraps \in BOOLEAN :
        LET r == initialize(World, s, f[1], f[2], f[3], wraps)
        IN  r.err = "Ok" /\ Commit(r.w)

StakeStep ==
    \E s \in Keys, pos \in Keys, a \in Amounts :
        LET r == stake(World, s, pos, a)
        IN  r.err = "Ok" /\ Commit(r.w)

UnstakeStep ==
    \E s \in Keys, pos \in Keys, a \in Amounts :
        LET r == unstake(World, s, pos, a)
        IN  r.err = "Ok" /\ Commit(r.w)

ClaimStep ==
    \E s \in Keys, pos \in Keys :
        LET r == claim_reflections(World, s, pos)
        IN  r.err = "Ok" /\ Commit(r.w)

DepositStep ==
    \E s \in Keys, a \in Amounts :
        LET r == deposit_reflections(World, s, a)
        IN  /\ config.total_reflections_distributed + config.pending_reflections + a
                 <= MaxReflections
            /\ r.err = "Ok" /\ Commit(r.w)

SetPausedStep ==
    \E s \in Keys, paused \in BOOLEAN :
        LET r == set_paused(World, s, paused)
        IN  r.err = "Ok" /\ Commit(r.w)

BurnStep ==
    \E s \in Keys, a \in Amounts :
        LET r == burn_tokens(World, s, a)
        IN  r.err = "Ok" /\ Commit(r.w)

AirdropStep ==
    \E s \in Keys, n \in RecipientCounts, a \in Amounts :
        LET r == airdrop(World, s, n, a)
        IN  /\ airdrop_state.recipient_count + n <= MaxRecipients
            /\ r.err = "Ok" /\ Commit(r.w)

ProposeFeeStep ==
    \E s \in Keys, f \in FeeTriples, wraps \in BOOLEAN :
        LET r == propose_fee_update(World, s, f[1], f[2], f[3], wraps)
        IN  r.err = "Ok" /\ Commit(r.w)

ExecuteFeeStep ==
    \E s \in Keys :
        LET r == execute_fee_update(World, s)
        IN  r.err = "Ok" /\ Commit(r.w)

CancelFeeStep ==
    \E s \in Keys :
        LET r == cancel_fee_proposal(World, s)
        IN  r.err = "Ok" /\ Commit(r.w)

UpdateFeesStep ==
    \E s \in Keys, g \in Keys \cup {NoKey}, f \in FeeTriples, wraps \in BOOLEAN :
        LET r == update_fees(World, s, g, f[1], f[2], f[3], wraps)
        IN  r.err = "Ok" /\ Commit(r.w)

ProposeAuthorityStep ==
    \E s \in Keys, n \in Keys :
        LET r == propose_authority_transfer(World, s, n)
        IN  r.err = "Ok" /\ Commit(r.w)

ExecuteAuthorityStep ==
    \E s \in Keys :
        LET r == execute_authority_transfer(World, s)
        IN  r.err = "Ok" /\ Commit(r.w)

CancelAuthorityStep ==
    \E s \in Keys :
        LET r == cancel_authority_transfer(World, s)
        IN  r.err = "Ok" /\ Commit(r.w)

InitializeLPVaultStep ==
    \E s \in Keys :
        LET r == initialize_lp_vault(World, s)
        IN  r.err = "Ok" /\ Commit(r.w)

AllocateStep ==
    \E s \in Keys, a \in Amounts :
        LET r == allocate_to_lp(World, s, a)
        IN  /\ lp_vault.total_allocated + a <= MaxAllocated
            /\ r.err = "Ok" /\ Commit(r.w)

RecordDeploymentStep ==
    \E s \in Keys, a \in Amounts, t \in LpTokenAmounts, p \in PoolAddresses :
        LET r == record_lp_deployment(World, s, a, t, p)
        IN  r.err = "Ok" /\ Commit(r.w)

WithdrawStep ==
    \E s \in Keys, a \in Amounts :
        LET r == withdraw_from_lp_vault(World, s, a)
        IN  r.err = "Ok" /\ Commit(r.w)

\* The clock moves on between instructions.
Tick ==
    /\ \E t \in Times : t > now /\ now' = t
    /\ UNCHANGED << config, user_stake, fee_proposal, pending_transfer, lp_vault,
                    lp_deployments, burn_record, airdrop_state, tokens >>

\* -------------------------------------------------------------- specifications

Counted == ops < MaxOps /\ ops' = ops + 1 /\ calc' = calc
Uncounted == ops' = ops /\ calc' = calc

\* The whole program: every instruction, to a depth of MaxOps steps.
Next ==
    \/ Counted /\ InitializeStep
    \/ Counted /\ StakeStep
    \/ Counted /\ UnstakeStep
    \/ Counted /\ ClaimStep
    \/ Counted /\ DepositStep
    \/ Counted /\ SetPausedStep
    \/ Counted /\ BurnStep
    \/ Counted /\ AirdropStep
    \/ Counted /\ ProposeFeeStep
    \/ Counted /\ ExecuteFeeStep
    \/ Counted /\ CancelFeeStep
    \/ Counted /\ UpdateFeesStep
    \/ Counted /\ ProposeAuthorityStep
    \/ Counted /\ ExecuteAuthorityStep
    \/ Counted /\ CancelAuthorityStep
    \/ Counted /\ InitializeLPVaultStep
    \/ Counted /\ AllocateStep
    \/ Counted /\ RecordDeploymentStep
    \/ Counted /\ WithdrawStep
    \/ Counted /\ Tick

Spec == Init /\ [][Next]_vars

\* The stake ledger, to any depth.
NextLedger ==
    \/ Uncounted /\ InitializeStep
    \/ Uncounted /\ StakeStep
    \/ Uncounted /\ UnstakeStep
    \/ Uncounted /\ ClaimStep
    \/ Uncounted /\ DepositStep
    \/ Uncounted /\ SetPausedStep

SpecLedger == Init /\ [][NextLedger]_vars

\* The two timelocks and the emergency fee update, to any depth.
NextGovernance ==
    \/ Uncounted /\ InitializeStep
    \/ Uncounted /\ ProposeFeeStep
    \/ Uncounted /\ ExecuteFeeStep
    \/ Uncounted /\ CancelFeeStep
    \/ Uncounted /\ UpdateFeesStep
    \/ Uncounted /\ ProposeAuthorityStep
    \/ Uncounted /\ ExecuteAuthorityStep
    \/ Uncounted /\ CancelAuthorityStep
    \/ Uncounted /\ Tick

SpecGovernance == Init /\ [][NextGovernance]_vars

\* The LP vault, to any depth.
NextLP ==
    \/ Uncounted /\ InitializeStep
    \/ Uncounted /\ SetPausedStep
    \/ Uncounted /\ InitializeLPVaultStep
    \/ Uncounted /\ AllocateStep
    \/ Uncounted /\ RecordDeploymentStep
    \/ Uncounted /\ WithdrawStep
    \/ Uncounted /\ Tick

SpecLP == Init /\ [][NextLP]_vars

\* calculate_pending_rewards called on its own.  The arguments cover a
\* position without stake, debts below, at and above the accumulated
\* share, accumulators with a fractional part, and the example of the
\* reward tests (1000 staked at 0.1 token per share).
StakedInputs == {0, 1, 2, 3, 1000}
AccumulatorInputs ==
    { [hi |-> 0, lo |-> 0], [hi |-> 0, lo |-> 333333], [hi |-> 0, lo |-> 500000],
      [hi |-> 100000, lo |-> 0], [hi |-> 1000000, lo |-> 0],
      [hi |-> 1333333, lo |-> 333333], [hi |-> 2000000, lo |-> 0] }
DebtInputs == {0, 1, 2, 100, 101}

InitReward ==
    /\ calc \in [ user_staked : StakedInputs, accumulated_per_share : AccumulatorInputs,
                  reward_debt : DebtInputs, done : {FALSE}, pending : {0} ]
    /\ config = NoConfig
    /\ user_stake = [k \in Keys |-> NoUserStake]
    /\ fee_proposal = NoFeeProposal
    /\ pending_transfer = NoPendingTransfer
    /\ lp_vault = NoLPVault
    /\ lp_deployments = {}
    /\ burn_record = NoBurnRecord
    /\ airdrop_state = NoAirdropState
    /\ tokens = [a \in TokenAccounts |-> IF a \in Keys THEN InitialBalance ELSE 0]
    /\ now = 0
    /\ ops = 0

Calculate ==
    /\ ~calc.done
    /\ calc' = [calc EXCEPT
                   !.done = TRUE,
                   !.pending = calculate_pending_rewards(
                                   calc.user_staked, calc.accumulated_per_share,
                                   calc.reward_debt)]
    /\ UNCHANGED << config, user_stake, fee_proposal, pending_transfer, lp_vault,
                    lp_deployments, burn_record, airdrop_state, tokens, now, ops >>

NextReward == Calculate

SpecReward == InitReward /\ [][NextReward]_vars


\* ---- counters at the top of their width

\* The accounts before initialize, with the wallets funded.
FundedWorld ==
    [ config |-> NoConfig, user_stake |-> [k \in Keys |-> NoUserStake],
      fee_proposal |-> NoFeeProposal, pending_transfer |-> NoPendingTransfer,
      lp_vault |-> NoLPVault, lp_deployments |-> {}, burn_record |-> NoBurnRecord,
      airdrop_state |-> NoAirdropState,
      tokens |-> [a \in TokenAccounts |-> IF a \in Keys THEN InitialBalance ELSE 0],
      now |-> 0 ]

\* A pool run by k1 with an LP vault, one token staked by k2 and one token
\* of reflections deposited since.
StakedWorld ==
    LET w1 == initialize(FundedWorld, "k1", 200, 200, 100, FALSE).w
        w2 == stake(w1, "k2", "k2", 1).w
        w3 == deposit_reflections(w2, "k1", 1).w
    IN  initialize_lp_vault(w3, "k1").w

\* A pool whose positions are owed three tokens out of two deposited, after
\* a third token has been sent to the reflection pool directly.
GiftedWorld ==
    LET w1 == initialize(FundedWorld, "k1", 200, 200, 100, FALSE).w
        w2 == stake(w1, "k1", "k1", 2).w
        w3 == deposit_reflections(w2, "k1", 1).w
        w4 == stake(w3, "k2", "k2", 1).w
        w5 == unstake(w4, "k1", "k1", 1).w
        w6 == deposit_reflections(w5, "k1", 1).w
    IN  [w6 EXCEPT !.tokens = Move(@, "k2", "reflection_pool", 1)]

\* The counters that long use of the pool brings to the top of their width.
HotCounters ==
    { "none", "total_burned", "total_airdropped", "total_allocated", "total_claimed",
      "total_reflections_distributed", "accumulated_per_share", "saturation" }

\* How far below the top the counter starts.
Headroom == {0, 1}

\* StakedWorld after long use: the counter hot is m below the top of its
\* width, and what the code keeps in step with it is in step.
OverflowWorld(hot, m) ==
    LET top == U64_MAX - m
        aps == [hi |-> U128_MAX_HI - m * PRECISION_ROOT, lo |-> 0]
    IN  CASE hot = "none" -> StakedWorld
          [] hot = "saturation" -> GiftedWorld
          [] hot = "total_burned" ->
                 [StakedWorld EXCEPT !.burn_record =
                     [ initialized |-> TRUE, total_burned |-> top, burn_count |-> 1,
                       last_burn_time |-> 0 ]]
          [] hot = "total_airdropped" ->
                 [StakedWorld EXCEPT !.airdrop_state =
                     [ initialized |-> TRUE, total_airdropped |-> top,
                       recipient_count |-> 1 ]]
          [] hot = "total_allocated" ->
                 [StakedWorld EXCEPT !.lp_vault.total_allocated = top]
          [] hot = "total_claimed" ->
                 [StakedWorld EXCEPT !.user_stake["k2"].total_claimed = top,
                                     !.config.total_reflections_distributed = top]
          [] hot = "total_reflections_distributed" ->
                 [StakedWorld EXCEPT
                     !.user_stake["k1"] =
                         [NoUserStake EXCEPT !.initialized = TRUE, !.owner = "k1",
                                             !.total_claimed = top],
                     !.config.total_reflections_distributed = top]
          [] hot = "accumulated_per_share" ->
                 [StakedWorld EXCEPT
                     !.config.accumulated_per_share = aps,
                     !.user_stake["k2"].reward_debt = calculate_reward_debt(1, aps) - 1]

InitOverflow ==
    \E hot \in HotCounters, m \in Headroom :
        LET w == OverflowWorld(hot, m)
        IN  /\ calc = NoCalc
            /\ config = w.config
            /\ user_stake = w.user_stake
            /\ fee_proposal = w.fee_proposal
            /\ pending_transfer = w.pending_transfer
            /\ lp_vault = w.lp_vault
            /\ lp_deployments = w.lp_deployments
            /\ burn_record = w.burn_record
            /\ airdrop_state = w.airdrop_state
            /\ tokens = w.tokens
            /\ now = w.now
            /\ ops = 0

\* deposit_reflections of any amount the authority holds.
DepositAnyStep ==
    \E s \in Keys, a \in Amounts :
        LET r == deposit_reflections(World, s, a)
        IN  r.err = "Ok" /\ Commit(r.w)

\* allocate_to_lp of any amount the authority holds.
AllocateAnyStep ==
    \E s \in Keys, a \in Amounts :
        LET r == allocate_to_lp(World, s, a)
        IN  r.err = "Ok" /\ Commit(r.w)

\* One more instruction processed, of the few that follow long use.
CountedOverflow == ops < MaxOverflowOps /\ ops' = ops + 1 /\ calc' = calc

NextOverflow ==
    \/ CountedOverflow /\ StakeStep
    \/ CountedOverflow /\ UnstakeStep
    \/ CountedOverflow /\ ClaimStep
    \/ CountedOverflow /\ DepositAnyStep
    \/ CountedOverflow /\ BurnStep
    \/ CountedOverflow /\ AirdropStep
    \/ CountedOverflow /\ AllocateAnyStep
    \/ CountedOverflow /\ RecordDeploymentStep
    \/ CountedOverflow /\ WithdrawStep

SpecOverflow == InitOverflow /\ [][NextOverflow]_vars

\* ------------------------------------------------------------------ properties

RECURSIVE SumStaked(_, _)
SumStaked(us, S) ==
    IF S = {} THEN 0
    ELSE LET k == CHOOSE x \in S : TRUE
         IN  us[k].staked_amount + SumStaked(us, S \ {k})

\* C1: after every instruction, config.total_staked equals the sum of
\* staked_amount over all the pool's positions.
C1_Conservation == config.total_staked = SumStaked(user_stake, Keys)

\* C1 witness: one key has staked and unstaked everything while the other
\* key's stake of 2 remains.
C1_Witness ==
    \E k \in Keys, j \in Keys :
        /\ k # j
        /\ user_stake[k].initialized /\ user_stake[k].staked_amount = 0
        /\ user_stake[j].staked_amount = 2
        /\ config.total_staked = 2

\* C2: unstake succeeds only for 0 < amount <= staked_amount and then leaves
\* staked_amount reduced by exactly amount, never negative; a call refused
\* for a zero amount or for insufficient stake changes nothing.
C2_BoundedUnstake ==
    /\ \A k \in Keys : user_stake[k].staked_amount >= 0
    /\ \A s \in Keys, pos \in Keys, a \in 0..(MaxAmount + 1) :
           LET r == unstake(World, s, pos, a)
           IN  /\ r.err = "Ok" =>
                     /\ a > 0
                     /\ a <= user_stake[pos].staked_amount
                     /\ r.w.user_stake[pos].staked_amount
                            = user_stake[pos].staked_amount - a
                     /\ r.w.user_stake[pos].staked_amount >= 0
               /\ r.err \in {"ZeroAmount", "InsufficientStake"} => r.w = World
               /\ (a = 0 \/ a > user_stake[pos].staked_amount) => r.err # "Ok"

\* C2 witness: key k has unstaked everything while the vault still holds
\* key j's stake: unstaking 1 is refused to k for insufficient stake and
\* granted to j.
C2_Witness ==
    \E k \in Keys, j \in Keys :
        /\ user_stake[k].initialized /\ user_stake[k].staked_amount = 0
        /\ tokens["staking_vault"] >= 1
        /\ unstake(World, k, k, 1).err = "InsufficientStake"
        /\ unstake(World, j, j, 0).err = "ZeroAmount"
        /\ unstake(World, j, j, 1).err = "Ok"

\* C3: while is_paused is true, stake fails for every caller and amount
\* and changes no position, pool total or balance.
C3_PauseBlocksStaking ==
    config.is_paused =>
        \A s \in Keys, pos \in Keys, a \in Amounts :
            LET r == stake(World, s, pos, a)
            IN  /\ r.err # "Ok"
                /\ r.w = World
                /\ (pos = s /\ a > 0) => r.err = "ProgramPaused"

\* C3 witness: the pool is paused and a staker who could pay for a further
\* stake is refused with ProgramPaused.
C3_Witness ==
    /\ config.is_paused
    /\ \E k \in Keys : /\ user_stake[k].staked_amount > 0
                       /\ tokens[k] >= 1
                       /\ stake(World, k, k, 1).err = "ProgramPaused"

\* An instruction's outcome with the pause flag of the result left out.
PauseBlind(r) == [err |-> r.err, w |-> [r.w EXCEPT !.config.is_paused = FALSE]]

\* Two outcomes of an instruction, one from the paused and one from the
\* unpaused pool, end the same way with the same writes.
SameOutcome(paused, unpaused) == PauseBlind(paused) = PauseBlind(unpaused)

\* C4: the pause flag gates stake alone: every other instruction, called
\* with the same inputs in the same state, succeeds or fails alike and
\* makes the same writes with is_paused true as with is_paused false.
C4_PauseExemption ==
    LET P == [World EXCEPT !.config.is_paused = TRUE]
        U == [World EXCEPT !.config.is_paused = FALSE]
    IN  config.initialized =>
        /\ \A s \in Keys, pos \in Keys, a \in Amounts :
               /\ SameOutcome(unstake(P, s, pos, a), unstake(U, s, pos, a))
               /\ SameOutcome(claim_reflections(P, s, pos), claim_reflections(U, s, pos))
        /\ \A s \in Keys, a \in Amounts :
               /\ SameOutcome(withdraw_from_lp_vault(P, s, a), withdraw_from_lp_vault(U, s, a))
               /\ SameOutcome(allocate_to_lp(P, s, a), allocate_to_lp(U, s, a))
               /\ SameOutcome(deposit_reflections(P, s, a), deposit_reflections(U, s, a))
               /\ SameOutcome(burn_tokens(P, s, a), burn_tokens(U, s, a))
               /\ \A n \in RecipientCounts :
                      SameOutcome(airdrop(P, s, n, a), airdrop(U, s, n, a))
               /\ \A t \in LpTokenAmounts, p \in PoolAddresses :
                      SameOutcome(record_lp_deployment(P, s, a, t, p),
                                  record_lp_deployment(U, s, a, t, p))
        /\ \A s \in Keys :
               /\ SameOutcome(execute_fee_update(P, s), execute_fee_update(U, s))
               /\ SameOutcome(cancel_fee_proposal(P, s), cancel_fee_proposal(U, s))
               /\ SameOutcome(execute_authority_transfer(P, s),
                              execute_authority_transfer(U, s))
               /\ SameOutcome(cancel_authority_transfer(P, s),
                              cancel_authority_transfer(U, s))
               /\ SameOutcome(initialize_lp_vault(P, s), initialize_lp_vault(U, s))
               /\ \A n \in Keys :
                      SameOutcome(propose_authority_transfer(P, s, n),
                                  propose_authority_transfer(U, s, n))
               /\ \A b \in BOOLEAN :
                      SameOutcome(set_paused(P, s, b), set_paused(U, s, b))
               /\ \A f \in FeeTriples, wraps \in BOOLEAN :
                      /\ SameOutcome(propose_fee_update(P, s, f[1], f[2], f[3], wraps),
                                     propose_fee_update(U, s, f[1], f[2], f[3], wraps))
                      /\ \A g \in Keys \cup {NoKey} :
                             SameOutcome(update_fees(P, s, g, f[1], f[2], f[3], wraps),
                                         update_fees(U, s, g, f[1], f[2], f[3], wraps))

\* C4 witness: the pool is paused, and an unstake and a claim of a staker
\* with rewards both succeed.
C4_Witness ==
    /\ config.is_paused
    /\ \E k \in Keys : /\ unstake(World, k, k, 1).err = "Ok"
                       /\ claim_reflections(World, k, k).err = "Ok"

\* The fee triple of a config or of a fee proposal.
FeeOf(x) == << x.reflection_share_bps, x.lp_share_bps, x.burn_share_bps >>

\* What the specification asks of a proposal p before execute may succeed at
\* current_time.
Executable(p, current_time) ==
    /\ p.initialized
    /\ ~p.executed
    /\ ~p.cancelled
    /\ current_time - p.proposed_at >= 86400

\* C5: execute, of a fee proposal or of an authority transfer, succeeds only
\* if now - proposed_at >= 86400 and the proposal is neither executed nor
\* cancelled; otherwise it fails and changes neither proposal nor config.
C5_TimelockGating ==
    /\ [](\A s \in Keys :
              LET f == execute_fee_update(World, s)
                  a == execute_authority_transfer(World, s)
              IN  /\ f.err = "Ok" => Executable(fee_proposal, now)
                  /\ f.err # "Ok" => f.w = World
                  /\ a.err = "Ok" => Executable(pending_transfer, now)
                  /\ a.err # "Ok" => a.w = World)
    /\ [][ /\ (~fee_proposal.executed /\ fee_proposal'.executed)
                => Executable(fee_proposal, now)
           /\ (~pending_transfer.executed /\ pending_transfer'.executed)
                => Executable(pending_transfer, now) ]_vars

\* C5 witness: both proposals were executed, the fee proposal exactly 86400
\* seconds after it was made.
C5_Witness ==
    /\ fee_proposal.executed
    /\ pending_transfer.executed
    /\ now - fee_proposal.proposed_at = 86400
    /\ FeeOf(config) = FeeOf(fee_proposal)
    /\ config.authority = pending_transfer.new_authority

\* C6: once a proposal is cancelled it stays cancelled and unexecuted, no
\* execute on it succeeds at any later time, and its payload is not applied:
\* the fee triple then changes only by update_fees and the authority not at
\* all.
C6_CancellationPermanence ==
    /\ []( /\ fee_proposal.cancelled =>
                \A s \in Keys : execute_fee_update(World, s).err # "Ok"
           /\ pending_transfer.cancelled =>
                \A s \in Keys : execute_authority_transfer(World, s).err # "Ok" )
    /\ [][ /\ fee_proposal.cancelled =>
                /\ fee_proposal' = fee_proposal
                /\ FeeOf(config') # FeeOf(config) => UpdateFeesStep
           /\ pending_transfer.cancelled =>
                /\ pending_transfer' = pending_transfer
                /\ config'.authority = config.authority ]_vars

\* C6 witness: a cancelled fee proposal, long after the delay, refused to its
\* own proposer, who is still the authority, because it was cancelled.
C6_Witness ==
    /\ fee_proposal.cancelled
    /\ now - fee_proposal.proposed_at > 86400
    /\ FeeOf(config) # FeeOf(fee_proposal)
    /\ execute_fee_update(World, fee_proposal.proposer).err = "ProposalCancelled"
    /\ pending_transfer.cancelled
    /\ execute_authority_transfer(World, pending_transfer.proposer).err
           = "AuthorityTransferCancelled"

\* C7 as stated: after a successful execute, a further execute by the same
\* caller fails with the already-executed error.
C7_AlreadyExecutedError ==
    /\ fee_proposal.executed =>
           execute_fee_update(World, fee_proposal.proposer).err
               = "ProposalAlreadyExecuted"
    /\ pending_transfer.executed =>
           execute_authority_transfer(World, pending_transfer.proposer).err
               = "AuthorityTransferAlreadyExecuted"

\* C7 as amended: after a successful execute every further execute fails and
\* changes nothing, with the already-executed error for a caller who is
\* still the current authority and the proposer and with NotAuthority for
\* every other caller; the proposal is never written again, so its payload
\* is applied at most once.
C7_SingleExecution ==
    /\ [](\A s \in Keys :
              LET f == execute_fee_update(World, s)
                  a == execute_authority_transfer(World, s)
              IN  /\ fee_proposal.executed =>
                        /\ f.w = World
                        /\ f.err = IF s = config.authority /\ s = fee_proposal.proposer
                                   THEN "ProposalAlreadyExecuted" ELSE "NotAuthority"
                  /\ pending_transfer.executed =>
                        /\ a.w = World
                        /\ a.err = IF s = config.authority /\ s = pending_transfer.proposer
                                   THEN "AuthorityTransferAlreadyExecuted"
                                   ELSE "NotAuthority")
    /\ [][ /\ fee_proposal.executed =>
                /\ fee_proposal' = fee_proposal
                /\ FeeOf(config') # FeeOf(config) => UpdateFeesStep
           /\ pending_transfer.executed =>
                /\ pending_transfer' = pending_transfer
                /\ config'.authority = config.authority ]_vars

\* C7 witness: both proposals were executed; the fee proposal's proposer is
\* still the authority and is refused with the already-executed error, and
\* the authority has moved to another key, so the transfer's proposer is
\* refused with NotAuthority.
C7_Witness ==
    /\ fee_proposal.executed
    /\ now - fee_proposal.proposed_at >= 86400
    /\ execute_fee_update(World, fee_proposal.proposer).err = "ProposalAlreadyExecuted"
    /\ pending_transfer.executed
    /\ config.authority # pending_transfer.proposer
    /\ execute_authority_transfer(World, pending_transfer.proposer).err = "NotAuthority"

\* C8: in every reachable state the config's three fee shares total 500, and
\* so do those of the stored fee proposal.
C8_FeeSumInvariant ==
    /\ config.initialized =>
           config.reflection_share_bps + config.lp_share_bps + config.burn_share_bps
               = 500
    /\ fee_proposal.initialized =>
           fee_proposal.reflection_share_bps + fee_proposal.lp_share_bps
               + fee_proposal.burn_share_bps = 500

\* C9: the vault's total_allocated equals total_deployed plus
\* pending_deployment after every allocate, record and withdraw.
C9_LPConservation ==
    lp_vault.total_allocated = lp_vault.total_deployed + lp_vault.pending_deployment

\* C10: accumulated_per_share never decreases in any step, a step that
\* changes it is a deposit_reflections, and a deposit_reflections called in
\* any reachable state leaves it at least what it was.
C10_AccumulatorMonotonic ==
    /\ [](\A s \in Keys, a \in Amounts :
              ApsLeq(config.accumulated_per_share,
                     deposit_reflections(World, s, a).w.config.accumulated_per_share))
    /\ [][ /\ ApsLeq(config.accumulated_per_share, config'.accumulated_per_share)
           /\ config'.accumulated_per_share # config.accumulated_per_share => DepositStep
         ]_vars

\* C10 witness: deposits totalling 2 tokens into a pool with 1 token staked
\* have raised the accumulator to 2 * PRECISION.
C10_Witness ==
    /\ config.total_staked = 1
    /\ config.pending_reflections = 2
    /\ config.accumulated_per_share = [hi |-> 2 * PRECISION_ROOT, lo |-> 0]

\* Outcome r of an instruction called in the current state: if its transfer
\* or burn failed, nothing is written.
Unwound(r) == r.err \in {"TransferFailed", "BurnFailed"} => r.w = World

ApsTimes(S, A) ==
    LET lo == S * A.lo
    IN  [hi |-> S * A.hi + (lo \div PRECISION_ROOT), lo |-> lo % PRECISION_ROOT]

\* floor(S * A / PRECISION): the one q with q * PRECISION <= S * A and
\* S * A < (q + 1) * PRECISION.
FloorShare(S, A) ==
    CHOOSE q \in 0..2000 :
        /\ ApsLeq([hi |-> q * PRECISION_ROOT, lo |-> 0], ApsTimes(S, A))
        /\ ~ApsLeq([hi |-> (q + 1) * PRECISION_ROOT, lo |-> 0], ApsTimes(S, A))

ApsSub(b, a) ==
    IF b.lo >= a.lo THEN [hi |-> b.hi - a.hi, lo |-> b.lo - a.lo]
    ELSE [hi |-> b.hi - a.hi - 1, lo |-> b.lo + PRECISION_ROOT - a.lo]

\* x = floor(amount * PRECISION / total): x * total <= amount * PRECISION
\* and amount * PRECISION < (x + 1) * total.
IsFloorOfShare(x, amount, total) ==
    LET scaled == [hi |-> amount * PRECISION_ROOT, lo |-> 0]
    IN  /\ ApsLeq(ApsTimes(total, x), scaled)
        /\ ~ApsLeq(ApsTimes(total, ApsAdd(x, [hi |-> 0, lo |-> 1])), scaled)

\* C13: a successful deposit_reflections(amount) raises accumulated_per_share
\* by exactly floor(amount * PRECISION / total_staked) when total_staked > 0
\* and leaves it alone when total_staked = 0; either way pending_reflections
\* grows by amount and no position changes.  deposit_reflections(0) fails
\* and changes nothing.
C13_DepositRule ==
    \A s \in Keys, a \in Amounts :
        LET r == deposit_reflections(World, s, a)
            before == config.accumulated_per_share
            after == r.w.config.accumulated_per_share
        IN  /\ a = 0 => r.err # "Ok"
            /\ r.err # "Ok" => r.w = World
            /\ r.err = "Ok" =>
                   /\ config.total_staked > 0 =>
                          /\ ApsLeq(before, after)
                          /\ IsFloorOfShare(ApsSub(after, before), a, config.total_staked)
                   /\ config.total_staked = 0 => after = before
                   /\ r.w.config.pending_reflections = config.pending_reflections + a
                   /\ r.w.user_stake = user_stake

\* C13 witness: of two deposits of 1 token, the one made with nothing
\* staked left the accumulator alone and the one made with 3 tokens staked
\* raised it by floor(PRECISION / 3).
C13_Witness ==
    /\ config.pending_reflections = 2
    /\ config.total_staked = 3
    /\ config.accumulated_per_share = [hi |-> 333333, lo |-> 333333]
    /\ deposit_reflections(World, config.authority, 0).err = "ZeroAmount"

\* C14: claim_reflections fails with NothingToClaim and no change when
\* pending_rewards plus the accumulator-derived delta is 0; otherwise it
\* pays exactly that total T from the reflection pool to the owner, zeroes
\* pending_rewards, adds T to total_claimed and to
\* total_reflections_distributed, takes T from pending_reflections down to
\* no less than 0, leaves staked_amount and total_staked alone, and a claim
\* repeated at once fails with NothingToClaim.
C14_ClaimEffects ==
    \A k \in Keys :
        LET us == user_stake[k]
            r  == claim_reflections(World, k, k)
            T  == us.pending_rewards
                  + calculate_pending_rewards(us.staked_amount,
                                              config.accumulated_per_share, us.reward_debt)
        IN  us.initialized =>
            /\ T = 0 => r.err = "NothingToClaim" /\ r.w = World
            /\ T > 0 =>
                   /\ r.err = "Ok"
                   /\ r.w.tokens[k] = tokens[k] + T
                   /\ r.w.tokens["reflection_pool"] = tokens["reflection_pool"] - T
                   /\ \A a \in TokenAccounts \ {k, "reflection_pool"} :
                          r.w.tokens[a] = tokens[a]
                   /\ r.w.user_stake[k].pending_rewards = 0
                   /\ r.w.user_stake[k].total_claimed = us.total_claimed + T
                   /\ r.w.config.total_reflections_distributed
                          = config.total_reflections_distributed + T
                   /\ r.w.config.pending_reflections
                          = IF config.pending_reflections >= T
                            THEN config.pending_reflections - T ELSE 0
                   /\ r.w.user_stake[k].staked_amount = us.staked_amount
                   /\ r.w.config.total_staked = config.total_staked
                   /\ claim_reflections(r.w, k, k).err = "NothingToClaim"

\* C15: update_fees succeeds only when the caller is the authority and a
\* guardian other than the authority signs with it; with the authority as
\* its own guardian, or with no guardian, it fails and the fee triple stays.
C15_DistinctGuardian ==
    \A s \in Keys, g \in Keys \cup {NoKey}, f \in FeeTriples, wraps \in BOOLEAN :
        LET r == update_fees(World, s, g, f[1], f[2], f[3], wraps)
        IN  /\ r.err = "Ok" => s = config.authority /\ g \in Keys /\ g # s
            /\ (g = NoKey \/ g = config.authority) =>
                   r.err # "Ok" /\ FeeOf(r.w.config) = FeeOf(config)

\* Outcome r of an instruction called in the current state: it failed and
\* wrote nothing.
Refused(r) == r.err # "Ok" /\ r.w = World

\* C16: deposit_reflections, airdrop, propose_fee_update, execute_fee_update,
\* cancel_fee_proposal, update_fees, set_paused, propose_, execute_ and
\* cancel_authority_transfer, initialize_lp_vault, allocate_to_lp,
\* record_lp_deployment and withdraw_from_lp_vault, called by a key that is
\* not config.authority, fail and change nothing.
C16_AuthorityOnly ==
    [](\A s \in Keys \ {config.authority} :
           /\ Refused(execute_fee_update(World, s))
           /\ Refused(cancel_fee_proposal(World, s))
           /\ Refused(execute_authority_transfer(World, s))
           /\ Refused(cancel_authority_transfer(World, s))
           /\ Refused(initialize_lp_vault(World, s))
           /\ \A b \in BOOLEAN : Refused(set_paused(World, s, b))
           /\ \A n \in Keys : Refused(propose_authority_transfer(World, s, n))
           /\ \A f \in FeeTriples, wraps \in BOOLEAN :
                  /\ Refused(propose_fee_update(World, s, f[1], f[2], f[3], wraps))
                  /\ \A g \in Keys \cup {NoKey} :
                         Refused(update_fees(World, s, g, f[1], f[2], f[3], wraps))
           /\ \A a \in Amounts :
                  /\ Refused(deposit_reflections(World, s, a))
                  /\ Refused(allocate_to_lp(World, s, a))
                  /\ Refused(withdraw_from_lp_vault(World, s, a))
                  /\ \A n \in RecipientCounts : Refused(airdrop(World, s, n, a))
                  /\ \A t \in LpTokenAmounts, p \in PoolAddresses :
                         Refused(record_lp_deployment(World, s, a, t, p)))

\* C16 witness: the authority has passed from one key to another; the new
\* authority can pause the pool and the former one is refused.
C16_Witness ==
    /\ pending_transfer.executed
    /\ config.authority # pending_transfer.proposer
    /\ set_paused(World, config.authority, TRUE).err = "Ok"
    /\ set_paused(World, pending_transfer.proposer, TRUE).err = "NotAuthority"

\* C17: unstake and claim_reflections called by a key on a position it does
\* not own fail and change nothing; and in every step a position's
\* staked_amount goes down, or its total_claimed up, only with the tokens
\* paid to the position's own key and to no other key.
C17_OwnerOnly ==
    /\ [](\A s \in Keys, pos \in Keys :
              s # pos =>
                  /\ Refused(claim_reflections(World, s, pos))
                  /\ \A a \in Amounts : Refused(unstake(World, s, pos, a)))
    /\ [][\A k \in Keys :
              LET unstaked == user_stake[k].staked_amount - user_stake'[k].staked_amount
                  claimed  == user_stake'[k].total_claimed - user_stake[k].total_claimed
              IN  (unstaked > 0 \/ claimed > 0) =>
                      /\ tokens'[k] = tokens[k] + unstaked + claimed
                      /\ \A j \in Keys \ {k} : tokens'[j] = tokens[j]
                      /\ user_stake'[k].owner = k
         ]_vars

\* C17 witness: key k has unstaked and claimed while the other key's
\* position still holds stake and rewards that k is refused.
C17_Witness ==
    \E k \in Keys, j \in Keys :
        /\ k # j
        /\ user_stake[k].initialized /\ user_stake[k].staked_amount = 0
        /\ user_stake[k].total_claimed > 0
        /\ user_stake[j].staked_amount > 0
        /\ claim_reflections(World, j, j).err = "Ok"
        /\ unstake(World, k, j, 1).err # "Ok"
        /\ claim_reflections(World, k, j).err # "Ok"


\* The result r of an instruction differs from the present accounts in the
\* airdrop state at most.
OnlyAirdropState(r) == r.w = [World EXCEPT !.airdrop_state = r.w.airdrop_state]

\* C18: airdrop changes the airdrop state's total_airdropped and
\* recipient_count and nothing else: whoever calls it, with whatever
\* recipients and amount, every token balance and every field of the config,
\* of the stake positions, of the LP vault and its deployments, of the burn
\* record and of the two proposals is as it was before; and every step of
\* the program that changes the airdrop state leaves all of these unchanged.
C18_AirdropNoTransfer ==
    /\ [](\A s \in Keys, n \in RecipientCounts, a \in Amounts :
              OnlyAirdropState(airdrop(World, s, n, a)))
    /\ [][airdrop_state' # airdrop_state =>
              UNCHANGED << config, user_stake, fee_proposal, pending_transfer,
                           lp_vault, lp_deployments, burn_record, tokens, now >>]_vars

\* An airdrop has been registered in a pool that holds stake and has burnt
\* tokens.
C18_Witness ==
    /\ airdrop_state.total_airdropped > 0
    /\ airdrop_state.recipient_count > 0
    /\ config.total_staked > 0
    /\ burn_record.burn_count > 0

\* What airdrop(n recipients, a each) called by s does to the registry.
AirdropAccounted(s, n, a, r) ==
    /\ (n > MAX_AIRDROP_RECIPIENTS \/ a = 0) => Refused(r)
    /\ (config.initialized /\ s = config.authority
            /\ n <= MAX_AIRDROP_RECIPIENTS /\ a > 0) => r.err = "Ok"
    /\ r.err = "Ok" =>
           /\ r.w.airdrop_state.total_airdropped =
                  airdrop_state.total_airdropped + n * a
           /\ r.w.airdrop_state.recipient_count = airdrop_state.recipient_count + n

\* C19: airdrop fails and changes nothing when there are more than 50
\* recipients or the amount per recipient is 0; otherwise, called by the
\* authority, it succeeds and adds exactly len(recipients) * amount to
\* total_airdropped and exactly len(recipients) to recipient_count; and
\* every change of the airdrop state is such an addition, for some number
\* of recipients up to 50 and some amount above 0.
C19_AirdropAccounting ==
    /\ [](\A s \in Keys, n \in RecipientCounts, a \in Amounts :
              AirdropAccounted(s, n, a, airdrop(World, s, n, a)))
    /\ [][airdrop_state' # airdrop_state =>
              \E n \in 0..MAX_AIRDROP_RECIPIENTS, a \in Amounts \ {0} :
                  /\ airdrop_state'.total_airdropped =
                         airdrop_state.total_airdropped + n * a
                  /\ airdrop_state'.recipient_count =
                         airdrop_state.recipient_count + n]_vars

\* Two airdrops have been registered, 50 recipients at 2 each and one at 1,
\* and a third one with 51 recipients is refused.
C19_Witness ==
    /\ airdrop_state.recipient_count = 51
    /\ airdrop_state.total_airdropped = 101
    /\ airdrop(World, config.authority, 51, 1).err = "TooManyRecipients"
    /\ airdrop(World, config.authority, 1, 0).err = "ZeroAmount"

\* All tokens in existence.
TotalSupply ==
    tokens["k1"] + tokens["k2"] + tokens["staking_vault"]
        + tokens["reflection_pool"] + tokens["lp_vault_token"]

\* What burn_tokens(a) called by s does to the burn record.
BurnAccounted(a, r) ==
    /\ a = 0 => Refused(r)
    /\ r.err = "Ok" =>
           /\ r.w.burn_record.total_burned = burn_record.total_burned + a
           /\ r.w.burn_record.burn_count = burn_record.burn_count + 1

\* C20: burn_tokens(0) fails and changes nothing; a successful
\* burn_tokens(amount) adds exactly amount to total_burned and exactly 1 to
\* burn_count.  So, whatever instructions are run, total_burned is the
\* number of tokens destroyed since the start, and a step changes the burn
\* record only by destroying tokens: it then adds 1 to burn_count and the
\* number of tokens destroyed to total_burned.
C20_BurnRegistry ==
    /\ [](/\ \A s \in Keys, a \in Amounts : BurnAccounted(a, burn_tokens(World, s, a))
          /\ burn_record.total_burned = Cardinality(Keys) * InitialBalance - TotalSupply
          /\ burn_record.burn_count <= burn_record.total_burned)
    /\ [][IF TotalSupply' < TotalSupply
          THEN /\ burn_record'.burn_count = burn_record.burn_count + 1
               /\ burn_record'.total_burned =
                      burn_record.total_burned + (TotalSupply - TotalSupply')
          ELSE /\ TotalSupply' = TotalSupply
               /\ burn_record'.burn_count = burn_record.burn_count
               /\ burn_record'.total_burned = burn_record.total_burned]_vars

\* Two burns, of 1 and of 2 tokens, in a pool that holds stake.
C20_Witness ==
    /\ burn_record.burn_count = 2
    /\ burn_record.total_burned = 3
    /\ config.total_staked > 0


\* A fee proposal that is neither executed nor cancelled, made by s, who is
\* still the authority.
PendingFor(s) ==
    /\ fee_proposal.initialized
    /\ ~fee_proposal.executed
    /\ ~fee_proposal.cancelled
    /\ fee_proposal.proposer = s
    /\ config.authority = s

\* What execute_fee_update by s returns at each age of such a proposal.
BoundaryAndRetry(s, r) ==
    /\ now - fee_proposal.proposed_at < 86400 =>
           /\ r.err = "TimelockNotExpired"
           /\ r.w = World
    /\ now - fee_proposal.proposed_at >= 86400 =>
           /\ r.err = "Ok"
           /\ FeeOf(r.w.config) = FeeOf(fee_proposal)
           /\ r.w.fee_proposal.executed

\* C21: for a fee proposal made at t0 and not cancelled, execute by the
\* authority that made it fails with TimelockNotExpired at every time before
\* t0 + 86400 (at t0 + 3600 in particular) and leaves the proposal pending
\* and the fee triple as it was; at t0 + 86400 exactly, and later, it
\* succeeds.  A failed attempt writes nothing, so it does not consume the
\* proposal.
C21_BoundaryAndRetry ==
    \A s \in Keys : PendingFor(s) => BoundaryAndRetry(s, execute_fee_update(World, s))

\* C21 witness: a proposal made at 0 is still pending at 86400, where
\* execute succeeds; with the clock at 3600 or at 86399 the same call on
\* the same accounts is refused.
C21_Witness ==
    /\ PendingFor(config.authority)
    /\ fee_proposal.proposed_at = 0
    /\ now = 86400
    /\ FeeOf(config) # FeeOf(fee_proposal)
    /\ execute_fee_update(World, config.authority).err = "Ok"
    /\ execute_fee_update([World EXCEPT !.now = 3600], config.authority).err
           = "TimelockNotExpired"
    /\ execute_fee_update([World EXCEPT !.now = 86399], config.authority).err
           = "TimelockNotExpired"


\* A proposal that has been executed or cancelled.
Terminal(p) == p.executed \/ p.cancelled

\* C22: no proposal, of either kind, is ever both executed and cancelled;
\* and once a proposal is executed or cancelled no step changes any of its
\* fields again: the flag stays, and so do the payload and proposed_at.
C22_ProposalLifecycle ==
    /\ []( /\ ~(fee_proposal.executed /\ fee_proposal.cancelled)
           /\ ~(pending_transfer.executed /\ pending_transfer.cancelled)
           /\ Terminal(fee_proposal) => fee_proposal.initialized
           /\ Terminal(pending_transfer) => pending_transfer.initialized )
    /\ [][ /\ Terminal(fee_proposal) => fee_proposal' = fee_proposal
           /\ Terminal(pending_transfer) => pending_transfer' = pending_transfer ]_vars

\* C22 witness: an executed fee proposal whose cancellation is refused to
\* the authority, next to a cancelled authority transfer whose execution
\* is refused after the delay.
C22_Witness ==
    /\ fee_proposal.executed
    /\ cancel_fee_proposal(World, config.authority).err = "ProposalAlreadyExecuted"
    /\ pending_transfer.cancelled
    /\ now - pending_transfer.proposed_at >= 86400
    /\ execute_authority_transfer(World, config.authority).err
           = "AuthorityTransferCancelled"


\* C23: once the config is initialized, a step that changes its fee triple
\* is either an update_fees or an execute_fee_update that applies the
\* triple of the stored proposal at least 86400 seconds after proposed_at;
\* and the stored proposal's triple and proposed_at are those written by
\* the propose_fee_update that created it, at the time it ran: no step
\* changes them afterwards.
C23_FeeChangesWait ==
    /\ [][(config.initialized /\ FeeOf(config') # FeeOf(config)) =>
              \/ UpdateFeesStep
              \/ /\ ExecuteFeeStep
                 /\ ~fee_proposal.executed /\ fee_proposal'.executed
                 /\ FeeOf(config') = FeeOf(fee_proposal)
                 /\ now - fee_proposal.proposed_at >= 86400]_vars
    /\ [][ /\ (~fee_proposal.initialized /\ fee_proposal'.initialized) =>
                /\ ProposeFeeStep
                /\ fee_proposal'.proposed_at = now
                /\ FeeOf(config') = FeeOf(config)
           /\ fee_proposal.initialized =>
                /\ fee_proposal'.initialized
                /\ fee_proposal'.proposed_at = fee_proposal.proposed_at
                /\ FeeOf(fee_proposal') = FeeOf(fee_proposal) ]_vars

\* C23 witness: the proposed triple, different from the one the pool was
\* initialized with, is in force after an execute at or after the delay.
C23_Witness ==
    /\ fee_proposal.executed
    /\ FeeOf(config) = FeeOf(fee_proposal)
    /\ FeeOf(config) = << 100, 300, 100 >>
    /\ now - fee_proposal.proposed_at >= 86400
    /\ ~pending_transfer.initialized


\* The accumulator-derived delta of position us under configuration cfg:
\* floor(staked_amount * accumulated_per_share / PRECISION) - reward_debt,
\* or 0 if that is negative.
Delta(us, cfg) ==
    LET gross == FloorShare(us.staked_amount, cfg.accumulated_per_share)
    IN  IF gross >= us.reward_debt THEN gross - us.reward_debt ELSE 0

\* What a claim by the owner of position us would pay under configuration
\* cfg: pending_rewards plus the accumulator-derived delta.
TotalClaimable(us, cfg) == us.pending_rewards + Delta(us, cfg)

\* The sum of TotalClaimable over all positions.
SumClaimable == TotalClaimable(user_stake["k1"], config) + TotalClaimable(user_stake["k2"], config)

\* C24: in every reachable state the positions' total claimable amounts sum
\* to no more than the reflection pool's balance, so a claim of a positive
\* total claimable amount by the position's owner does not fail.
C24_RewardPoolSolvency ==
    /\ SumClaimable <= tokens["reflection_pool"]
    /\ \A k \in Keys :
           (user_stake[k].initialized /\ TotalClaimable(user_stake[k], config) > 0)
               => claim_reflections(World, k, k).err = "Ok"


\* C25: in every reachable state, for every position,
\* reward_debt <= floor(staked_amount * accumulated_per_share / PRECISION),
\* so the subtraction in calculate_pending_rewards never saturates.
C25_NoSaturation ==
    \A k \in Keys :
        user_stake[k].reward_debt
            <= FloorShare(user_stake[k].staked_amount, config.accumulated_per_share)

\* C25 witness: one position carries a debt equal to its share of the
\* accumulator, another a positive debt below its share.
C25_Witness ==
    \E k, j \in Keys :
        /\ user_stake[k].reward_debt > 0
        /\ user_stake[k].reward_debt
               = FloorShare(user_stake[k].staked_amount, config.accumulated_per_share)
        /\ user_stake[j].reward_debt > 0
        /\ user_stake[j].reward_debt
               < FloorShare(user_stake[j].staked_amount, config.accumulated_per_share)


\* The debt of position us is its share of the accumulator of cfg.
FreshDebt(us, cfg) ==
    us.reward_debt = FloorShare(us.staked_amount, cfg.accumulated_per_share)

\* The position of k in the result r of a successful stake or unstake has a
\* fresh debt and the pending_rewards of before plus the delta of before.
BankedAndFresh(k, r) ==
    r.err = "Ok" =>
        /\ FreshDebt(r.w.user_stake[k], r.w.config)
        /\ r.w.config.accumulated_per_share = config.accumulated_per_share
        /\ r.w.user_stake[k].pending_rewards
               = user_stake[k].pending_rewards + Delta(user_stake[k], config)

\* The position of k in the result r of a successful claim has a fresh debt;
\* pending_rewards and the delta of before have been paid out.
PaidAndFresh(k, r) ==
    r.err = "Ok" =>
        /\ FreshDebt(r.w.user_stake[k], r.w.config)
        /\ r.w.config.accumulated_per_share = config.accumulated_per_share
        /\ r.w.user_stake[k].pending_rewards = 0
        /\ r.w.tokens[k]
               = tokens[k] + user_stake[k].pending_rewards + Delta(user_stake[k], config)

\* C26: after every successful stake, unstake or claim by p, p's reward_debt
\* is floor(staked_amount * accumulated_per_share / PRECISION) for the
\* staked_amount after the change and the pool's current accumulator; stake
\* and unstake have added the delta of before the change to pending_rewards
\* (claim has paid it out with pending_rewards); and every step that
\* changes a position leaves it with such a debt.
C26_DebtFreshness ==
    /\ [](\A k \in Keys :
              /\ PaidAndFresh(k, claim_reflections(World, k, k))
              /\ \A a \in Amounts :
                     /\ BankedAndFresh(k, stake(World, k, k, a))
                     /\ BankedAndFresh(k, unstake(World, k, k, a)))
    /\ [][\A k \in Keys :
              user_stake'[k] # user_stake[k] => FreshDebt(user_stake'[k], config')]_vars

\* C26 witness: a position with rewards banked by a stake or an unstake at
\* a non-zero accumulator, a positive debt equal to its share, and a
\* further stake that would bank a positive delta for the other position.
C26_Witness ==
    \E k, j \in Keys :
        /\ k # j
        /\ user_stake[k].pending_rewards > 0
        /\ user_stake[k].reward_debt > 0
        /\ FreshDebt(user_stake[k], config)
        /\ Delta(user_stake[j], config) > 0
        /\ stake(World, j, j, 1).err = "Ok"


\* The owner k of a position can claim after a successful r what k could
\* claim before it.
Preserved(k, r) ==
    r.err = "Ok" =>
        TotalClaimable(r.w.user_stake[k], r.w.config)
            = TotalClaimable(user_stake[k], config)

\* A first stake by k gives k nothing to claim.
FirstStakeClaimsNothing(k, r) ==
    (r.err = "Ok" /\ ~user_stake[k].initialized) =>
        /\ TotalClaimable(r.w.user_stake[k], r.w.config) = 0
        /\ claim_reflections(r.w, k, k).err = "NothingToClaim"

\* After k has unstaked everything, what k could claim is still there to
\* be claimed.
BankedRewardsRemain(k, r) ==
    (r.err = "Ok" /\ r.w.user_stake[k].staked_amount = 0
         /\ TotalClaimable(user_stake[k], config) > 0) =>
        /\ r.w.user_stake[k].pending_rewards = TotalClaimable(user_stake[k], config)
        /\ claim_reflections(r.w, k, k).err # "NothingToClaim"

\* C27: a successful stake or unstake by p leaves p's total claimable
\* amount (pending_rewards plus the accumulator-derived delta) exactly as it
\* was.  A first stake therefore gives a total claimable amount of 0,
\* whatever was deposited before, and after an unstake down to
\* staked_amount = 0 the rewards earned until then are held in
\* pending_rewards and a claim is not refused as NothingToClaim.
C27_RewardsPreserved ==
    /\ [](\A k \in Keys, a \in Amounts :
              LET s == stake(World, k, k, a)
                  u == unstake(World, k, k, a)
              IN  /\ Preserved(k, s)
                  /\ Preserved(k, u)
                  /\ FirstStakeClaimsNothing(k, s)
                  /\ BankedRewardsRemain(k, u))
    /\ [][\A k \in Keys :
              user_stake'[k].staked_amount # user_stake[k].staked_amount =>
                  TotalClaimable(user_stake'[k], config')
                      = TotalClaimable(user_stake[k], config)]_vars

\* C27 witness: one position has been emptied and keeps its rewards in
\* pending_rewards; the other was opened after a deposit, at a non-zero
\* accumulator, and has nothing to claim.
C27_Witness ==
    \E k, j \in Keys :
        /\ k # j
        /\ user_stake[k].initialized
        /\ user_stake[k].staked_amount = 0
        /\ user_stake[k].pending_rewards > 0
        /\ user_stake[j].staked_amount > 0
        /\ user_stake[j].reward_debt > 0
        /\ TotalClaimable(user_stake[j], config) = 0


\* Every amount from 1 up to what k has staked can be unstaked by k now.
PrincipalWithdrawable(k) ==
    \A a \in 1..user_stake[k].staked_amount :
        /\ unstake(World, k, k, a).err = "Ok"
        /\ unstake(World, k, k, a).w.tokens[k] = tokens[k] + a

\* C28: in every reachable state the staking vault holds exactly
\* config.total_staked tokens, and every participant can unstake any amount
\* a with 0 < a <= staked_amount: the call succeeds and pays a, whatever the
\* pause flag, the authority and the proposals are.
C28_PrincipalBacked ==
    [](/\ tokens["staking_vault"] = config.total_staked
       /\ \A k \in Keys : PrincipalWithdrawable(k))

\* C28 witness: a paused pool with stake in it, a fee proposal under way and
\* a staker who is not the authority.
C28_Witness ==
    /\ config.is_paused
    /\ fee_proposal.initialized
    /\ \E k \in Keys :
           /\ k # config.authority
           /\ user_stake[k].staked_amount > 0
           /\ unstake(World, k, k, user_stake[k].staked_amount).err = "Ok"


\* C29: burn_tokens called by anyone but config.authority fails and leaves
\* the burn record, total_burned and burn_count included, and every token
\* balance as they were: only the authority's holdings are ever burnt.
C29_BurnByAuthorityOnly ==
    \A s \in Keys \ {config.authority}, a \in Amounts :
        LET r == burn_tokens(World, s, a)
        IN  /\ r.err # "Ok"
            /\ r.w.burn_record = burn_record
            /\ r.w.tokens = tokens


\* A proposal that exists and is neither executed nor cancelled.
Live(p) == p.initialized /\ ~Terminal(p)

\* C30: a pool never has more than one live proposal of a kind.  The
\* proposal of each kind lives at the one address derived from the pool, and
\* while it is live every propose of its kind, by whatever caller and with
\* whatever payload, fails and changes nothing; so a step that makes a
\* proposal finds no live proposal of its kind.
C30_OneLiveProposal ==
    /\ []( /\ Live(fee_proposal) =>
                \A s \in Keys, f \in FeeTriples, wraps \in BOOLEAN :
                    Refused(propose_fee_update(World, s, f[1], f[2], f[3], wraps))
           /\ Live(pending_transfer) =>
                \A s \in Keys, n \in Keys :
                    Refused(propose_authority_transfer(World, s, n)) )
    /\ [][ /\ ProposeFeeStep => (~Live(fee_proposal) /\ Live(fee_proposal'))
           /\ ProposeAuthorityStep =>
                  (~Live(pending_transfer) /\ Live(pending_transfer')) ]_vars

\* C30 witness: a live proposal of each kind, after the delay, and a second
\* propose of each kind refused to the authority.
C30_Witness ==
    /\ Live(fee_proposal)
    /\ Live(pending_transfer)
    /\ now > fee_proposal.proposed_at
    /\ propose_fee_update(World, config.authority, 200, 200, 100, FALSE).err
           = "AlreadyInUse"
    /\ propose_authority_transfer(World, config.authority, "k2").err = "AlreadyInUse"


\* C31: the proposal account of each kind sits at an address derived from
\* the pool alone, is created by propose and never closed.  So once it
\* exists, pending, executed or cancelled, it exists for ever and every
\* propose of its kind, by whatever caller and with whatever payload, fails
\* and changes nothing; and over a pool's lifetime at most one execute of
\* each kind succeeds: the fee triple is changed by a timelocked execute at
\* most once, and the authority changes at most once.
C31_OneShotProposals ==
    /\ []( /\ fee_proposal.initialized =>
                \A s \in Keys, f \in FeeTriples, wraps \in BOOLEAN :
                    Refused(propose_fee_update(World, s, f[1], f[2], f[3], wraps))
           /\ pending_transfer.initialized =>
                \A s \in Keys, n \in Keys :
                    Refused(propose_authority_transfer(World, s, n)) )
    /\ [][ /\ fee_proposal.initialized =>
                /\ fee_proposal'.initialized
                /\ ~ProposeFeeStep
           /\ pending_transfer.initialized =>
                /\ pending_transfer'.initialized
                /\ ~ProposeAuthorityStep
           /\ ExecuteFeeStep => (~fee_proposal.executed /\ fee_proposal'.executed)
           /\ fee_proposal.executed => (fee_proposal'.executed /\ ~ExecuteFeeStep)
           /\ config'.authority # config.authority =>
                  \/ ~config.initialized
                  \/ ~pending_transfer.executed /\ pending_transfer'.executed
           /\ pending_transfer.executed =>
                  /\ pending_transfer'.executed
                  /\ config'.authority = config.authority ]_vars

\* C31 witness: an executed transfer has moved the authority, the fee
\* proposal was cancelled, the delay has passed again, and the new
\* authority is refused a propose of either kind.
C31_Witness ==
    /\ pending_transfer.executed
    /\ config.authority # pending_transfer.proposer
    /\ fee_proposal.cancelled
    /\ propose_fee_update(World, config.authority, 200, 200, 100, FALSE).err
           = "AlreadyInUse"
    /\ propose_authority_transfer(World, config.authority, pending_transfer.proposer).err
           = "AlreadyInUse"


\* C32: once the pool is initialized, a step that changes config.authority
\* is a successful execute_authority_transfer on a transfer that its caller,
\* the authority of the moment, proposed at least 86400 seconds before, and
\* the new authority is the new_authority recorded in it; the proposer,
\* new_authority and proposed_at of a transfer are those written when it was
\* proposed, by the authority of that moment; and execute_authority_transfer
\* is refused to everyone but the authority.  No other instruction,
\* update_fees included, changes the authority.
C32_AuthorityTimelocked ==
    /\ [](\A s \in Keys \ {config.authority} :
              Refused(execute_authority_transfer(World, s)))
    /\ [][(config.initialized /\ config'.authority # config.authority) =>
              /\ ExecuteAuthorityStep
              /\ pending_transfer.proposer = config.authority
              /\ ~pending_transfer.executed /\ ~pending_transfer.cancelled
              /\ pending_transfer'.executed
              /\ now - pending_transfer.proposed_at >= 86400
              /\ config'.authority = pending_transfer.new_authority]_vars
    /\ [][ /\ (~pending_transfer.initialized /\ pending_transfer'.initialized) =>
                /\ ProposeAuthorityStep
                /\ pending_transfer'.proposer = config.authority
                /\ pending_transfer'.proposed_at = now
                /\ config'.authority = config.authority
           /\ pending_transfer.initialized =>
                /\ pending_transfer'.proposer = pending_transfer.proposer
                /\ pending_transfer'.new_authority = pending_transfer.new_authority
                /\ pending_transfer'.proposed_at = pending_transfer.proposed_at ]_vars

\* C32 witness: the authority has passed to the key recorded in the
\* transfer, at or after the delay, with no fee proposal ever made.
C32_Witness ==
    /\ pending_transfer.executed
    /\ config.authority = pending_transfer.new_authority
    /\ config.authority # pending_transfer.proposer
    /\ now - pending_transfer.proposed_at >= 86400
    /\ ~fee_proposal.initialized


\* The fee proposal was made by a key that is no longer the authority.
Orphaned == fee_proposal.initialized /\ fee_proposal.proposer # config.authority

\* The authority can cancel the fee proposal now.
CancellableByAuthority ==
    /\ cancel_fee_proposal(World, config.authority).err = "Ok"
    /\ cancel_fee_proposal(World, config.authority).w
           = [World EXCEPT !.fee_proposal.cancelled = TRUE]

\* C33: execute_fee_update succeeds only for a caller that is both
\* config.authority and the proposal's proposer.  Once an authority
\* transfer has executed, a fee proposal made by the previous authority is
\* refused to every caller, at any time, with no change; it stays so for
\* ever and is never executed; and as long as it is not executed the new
\* authority can cancel it.
C33_OrphanedProposal ==
    /\ [](\A s \in Keys :
              /\ execute_fee_update(World, s).err = "Ok" =>
                     (s = config.authority /\ s = fee_proposal.proposer)
              /\ Orphaned => Refused(execute_fee_update(World, s)))
    /\ []((Orphaned /\ ~fee_proposal.executed) => CancellableByAuthority)
    /\ [][Orphaned =>
              /\ Orphaned'
              /\ fee_proposal'.executed = fee_proposal.executed
              /\ FeeOf(config') # FeeOf(config) => UpdateFeesStep]_vars

\* C33 witness: a pending fee proposal made by the previous authority, past
\* the delay, refused to its proposer and to the new authority alike.
C33_Witness ==
    /\ Orphaned
    /\ Live(fee_proposal)
    /\ pending_transfer.executed
    /\ now - fee_proposal.proposed_at >= 86400
    /\ execute_fee_update(World, fee_proposal.proposer).err = "NotAuthority"
    /\ execute_fee_update(World, config.authority).err = "NotAuthority"
    /\ CancellableByAuthority


\* The accounts after an execute of the stored fee proposal: its triple in
\* the config, the proposal marked executed, nothing else touched.
FeeProposalApplied ==
    [World EXCEPT
        !.config = [config EXCEPT
                       !.reflection_share_bps = fee_proposal.reflection_share_bps,
                       !.lp_share_bps = fee_proposal.lp_share_bps,
                       !.burn_share_bps = fee_proposal.burn_share_bps],
        !.fee_proposal = [fee_proposal EXCEPT !.executed = TRUE]]

\* The accounts after an execute of the stored authority transfer.
TransferApplied ==
    [World EXCEPT
        !.config = [config EXCEPT !.authority = pending_transfer.new_authority],
        !.pending_transfer = [pending_transfer EXCEPT !.executed = TRUE]]

\* C34: a successful execute_fee_update leaves the config with exactly the
\* triple stored in the proposal, whatever triple the config held before
\* (update_fees may have changed it since the proposal was made), and marks
\* the proposal executed; a successful execute_authority_transfer makes the
\* stored new_authority the authority and marks the transfer executed.
\* Neither changes any other field of the config, or anything else.
\* The stored payloads are the ones written at propose time: update_fees,
\* like every other step, leaves them alone.
C34_ExactPayload ==
    /\ [](\A s \in Keys :
              /\ execute_fee_update(World, s).err = "Ok" =>
                     execute_fee_update(World, s).w = FeeProposalApplied
              /\ execute_authority_transfer(World, s).err = "Ok" =>
                     execute_authority_transfer(World, s).w = TransferApplied)
    /\ [][ /\ fee_proposal.initialized => FeeOf(fee_proposal') = FeeOf(fee_proposal)
           /\ pending_transfer.initialized =>
                  pending_transfer'.new_authority = pending_transfer.new_authority
           /\ ExecuteFeeStep => FeeOf(config') = FeeOf(fee_proposal)
           /\ ExecuteAuthorityStep =>
                  config'.authority = pending_transfer.new_authority ]_vars

\* C34 witness: both executes succeed here, on a pool whose triple differs
\* from the proposed one and whose authority differs from the proposed one.
C34_Witness ==
    /\ execute_fee_update(World, config.authority).err = "Ok"
    /\ execute_authority_transfer(World, config.authority).err = "Ok"
    /\ FeeOf(config) # FeeOf(fee_proposal)
    /\ config.authority # pending_transfer.new_authority
    /\ FeeOf(FeeProposalApplied.config) = FeeOf(fee_proposal)
    /\ TransferApplied.config.authority = pending_transfer.new_authority


\* What cancel_fee_proposal by the authority returns on an existing
\* proposal.
FeeCancelSemantics(r) ==
    /\ ~fee_proposal.executed =>
           /\ r.err = "Ok"
           /\ r.w = [World EXCEPT !.fee_proposal.cancelled = TRUE]
    /\ fee_proposal.cancelled => (r.err = "Ok" /\ r.w = World)
    /\ fee_proposal.executed => (r.err = "ProposalAlreadyExecuted" /\ r.w = World)

\* What cancel_authority_transfer by the authority returns on an existing
\* transfer.
TransferCancelSemantics(r) ==
    /\ ~pending_transfer.executed =>
           /\ r.err = "Ok"
           /\ r.w = [World EXCEPT !.pending_transfer.cancelled = TRUE]
    /\ pending_transfer.cancelled => (r.err = "Ok" /\ r.w = World)
    /\ pending_transfer.executed =>
           (r.err = "AuthorityTransferAlreadyExecuted" /\ r.w = World)

\* C35: cancel, of either kind, called by the current authority on an
\* existing proposal succeeds whenever the proposal is not executed, before
\* and after the delay and whoever proposed it, and sets cancelled and
\* nothing else; on a proposal already cancelled it succeeds again and
\* changes nothing; on an executed proposal it fails and changes nothing.
\* No cancel, by any caller, changes the config.
C35_CancelSemantics ==
    /\ []( /\ fee_proposal.initialized =>
                FeeCancelSemantics(cancel_fee_proposal(World, config.authority))
           /\ pending_transfer.initialized =>
                TransferCancelSemantics(cancel_authority_transfer(World, config.authority))
           /\ \A s \in Keys :
                /\ cancel_fee_proposal(World, s).w.config = config
                /\ cancel_authority_transfer(World, s).w.config = config )
    /\ [][(CancelFeeStep \/ CancelAuthorityStep) => config' = config]_vars

\* C35 witness: a fee proposal made by the previous authority was cancelled
\* by the new one, who may cancel it again, after the delay; the transfer
\* that changed the authority is executed and its cancellation is refused.
C35_Witness ==
    /\ Orphaned
    /\ fee_proposal.cancelled
    /\ now - fee_proposal.proposed_at >= 86400
    /\ cancel_fee_proposal(World, config.authority).err = "Ok"
    /\ pending_transfer.executed
    /\ cancel_authority_transfer(World, config.authority).err
           = "AuthorityTransferAlreadyExecuted"


\* What record_lp_deployment(a, ...) returns.
RecordBounded(a, r) ==
    /\ r.err = "Ok" =>
           /\ a > 0
           /\ a <= lp_vault.pending_deployment
           /\ r.w.lp_vault.pending_deployment = lp_vault.pending_deployment - a
           /\ r.w.lp_vault.total_deployed = lp_vault.total_deployed + a
           /\ r.w.lp_vault.total_allocated = lp_vault.total_allocated
           /\ r.w.tokens = tokens
           /\ Cardinality(r.w.lp_deployments) = Cardinality(lp_deployments) + 1
           /\ \E d \in r.w.lp_deployments \ lp_deployments : d.kernel_amount = a
    /\ r.err # "Ok" =>
           /\ r.w.lp_vault = lp_vault
           /\ r.w.lp_deployments = lp_deployments
           /\ r.w = World

\* What withdraw_from_lp_vault(a) by s returns.
WithdrawBounded(s, a, r) ==
    /\ r.err = "Ok" =>
           /\ a > 0
           /\ a <= lp_vault.pending_deployment
           /\ r.w.lp_vault = [lp_vault EXCEPT !.pending_deployment = @ - a]
           /\ r.w.tokens = Move(tokens, "lp_vault_token", s, a)
           /\ r.w.lp_deployments = lp_deployments
    /\ r.err # "Ok" => r.w = World

\* The amounts tried: none, every amount an allocation can reach, and one
\* more than is pending.
LpAmounts == Amounts \cup {lp_vault.pending_deployment + 1}

\* C36: record_lp_deployment(amount, ...) and withdraw_from_lp_vault(amount)
\* succeed only if 0 < amount <= pending_deployment.  On success
\* pending_deployment falls by exactly amount; record_lp_deployment also
\* adds amount to total_deployed, creates one deployment record and moves no
\* tokens; withdraw_from_lp_vault pays amount from the vault's token account
\* to the caller.  On failure the vault is unchanged and no deployment
\* record is created.  For the authority of an initialized vault the bound
\* is the only obstacle.
C36_LPPendingBound ==
    /\ [](\A s \in Keys, a \in LpAmounts :
              /\ \A t \in LpTokenAmounts, p \in PoolAddresses :
                     RecordBounded(a, record_lp_deployment(World, s, a, t, p))
              /\ WithdrawBounded(s, a, withdraw_from_lp_vault(World, s, a))
              /\ (lp_vault.initialized /\ s = config.authority
                      /\ a > 0 /\ a <= lp_vault.pending_deployment) =>
                     withdraw_from_lp_vault(World, s, a).err = "Ok")
    /\ [][lp_vault'.pending_deployment < lp_vault.pending_deployment =>
              /\ RecordDeploymentStep \/ WithdrawStep
              /\ lp_vault'.pending_deployment >= 0]_vars

\* C36 witness: one token deployed and one pending; an amount of 2 is
\* refused to the authority by both instructions and an amount of 1 is
\* accepted by both.
C36_Witness ==
    /\ lp_vault.total_deployed = 1
    /\ lp_vault.pending_deployment = 1
    /\ record_lp_deployment(World, config.authority, 2, 1, "raydium").err
           = "InsufficientLPFunds"
    /\ withdraw_from_lp_vault(World, config.authority, 2).err = "InsufficientLPFunds"
    /\ record_lp_deployment(World, config.authority, 1, 1, "raydium").err = "Ok"
    /\ withdraw_from_lp_vault(World, config.authority, 1).err = "Ok"


\* total_allocated - (total_deployed + pending_deployment)
LpGap ==
    lp_vault.total_allocated - (lp_vault.total_deployed + lp_vault.pending_deployment)

\* The tokens the keys hold between them.
HeldByKeys == tokens["k1"] + tokens["k2"]

SameClaimable(us, cfg1, cfg2) ==
    \/ cfg1.accumulated_per_share = cfg2.accumulated_per_share
    \/ TotalClaimable(us, cfg1) = TotalClaimable(us, cfg2)

\* The result r of an instruction of k leaves the position of every other
\* participant, and what it can claim, as they were.
OthersUntouched(k, r) ==
    \A j \in Keys \ {k} :
        /\ r.w.user_stake[j] = user_stake[j]
        /\ SameClaimable(user_stake[j], config, r.w.config)

\* C38: a stake, unstake or claim by p changes no field of the position of
\* any other participant and leaves every other participant's total
\* claimable amount as it was; deposit_reflections changes no field of any
\* position.  So no step changes two positions, and a step that changes
\* the position of one participant leaves what the others can claim alone.
C38_Isolation ==
    /\ [](\A k \in Keys :
              /\ OthersUntouched(k, claim_reflections(World, k, k))
              /\ \A a \in Amounts :
                     /\ OthersUntouched(k, stake(World, k, k, a))
                     /\ OthersUntouched(k, unstake(World, k, k, a))
                     /\ deposit_reflections(World, k, a).w.user_stake = user_stake)
    /\ [][\A k \in Keys :
              user_stake'[k] # user_stake[k] =>
                  \A j \in Keys \ {k} :
                      /\ user_stake'[j] = user_stake[j]
                      /\ SameClaimable(user_stake[j], config, config')]_vars

\* C38 witness: both participants have stake and something to claim, and
\* one of them can claim, stake and unstake.
C38_Witness ==
    \E k, j \in Keys :
        /\ k # j
        /\ user_stake[j].staked_amount > 0
        /\ TotalClaimable(user_stake[j], config) > 0
        /\ TotalClaimable(user_stake[k], config) > 0
        /\ claim_reflections(World, k, k).err = "Ok"
        /\ stake(World, k, k, 1).err = "Ok"
        /\ unstake(World, k, k, 1).err = "Ok"


\* A fee share within its bounds.
ShareInBounds(x) == 0 <= x /\ x <= 500

\* C39: in every reachable state each of the config's three fee shares is
\* between 0 and 500, and so is each share of a stored fee proposal: no
\* triple with a share above 500 is accepted by initialize,
\* propose_fee_update or update_fees.
C39_IndividualFeeBounds ==
    /\ config.initialized =>
           /\ ShareInBounds(config.reflection_share_bps)
           /\ ShareInBounds(config.lp_share_bps)
           /\ ShareInBounds(config.burn_share_bps)
    /\ fee_proposal.initialized =>
           /\ ShareInBounds(fee_proposal.reflection_share_bps)
           /\ ShareInBounds(fee_proposal.lp_share_bps)
           /\ ShareInBounds(fee_proposal.burn_share_bps)



\* The amounts an instruction may be called with, the largest u64 included.
WideAmounts == {1, 2, U64_MAX}

\* The largest value of the accumulator.
ApsMax == [hi |-> U128_MAX_HI, lo |-> PRECISION_ROOT - 1]

\* An instruction that fails leaves every account and balance as it was.
Atomic(r) == r.err # "Ok" => r.w = World

\* Every counter of the ledger is within its width.
InWidth ==
    /\ config.total_staked <= U64_MAX
    /\ config.pending_reflections <= U64_MAX
    /\ config.total_reflections_distributed <= U64_MAX
    /\ ApsLeq(config.accumulated_per_share, ApsMax)
    /\ burn_record.total_burned <= U64_MAX
    /\ burn_record.burn_count <= U64_MAX
    /\ airdrop_state.total_airdropped <= U64_MAX
    /\ airdrop_state.recipient_count <= U64_MAX
    /\ lp_vault.total_allocated <= U64_MAX
    /\ lp_vault.total_deployed <= U64_MAX
    /\ lp_vault.pending_deployment <= U64_MAX
    /\ \A k \in Keys :
           /\ user_stake[k].staked_amount <= U64_MAX
           /\ user_stake[k].pending_rewards <= U64_MAX
           /\ user_stake[k].total_claimed <= U64_MAX

\* stake, unstake and deposit_reflections of a by k: a sum beyond the width
\* refuses, and a call that goes through has added exactly.
StakeFatal(k, a) ==
    LET s == stake(World, k, k, a)
        u == unstake(World, k, k, a)
    IN  /\ Atomic(s) /\ Atomic(u)
        /\ (user_stake[k].staked_amount + a > U64_MAX \/ config.total_staked + a > U64_MAX)
               => Refused(s)
        /\ s.err = "Ok" =>
               /\ s.w.user_stake[k].staked_amount = user_stake[k].staked_amount + a
               /\ s.w.config.total_staked = config.total_staked + a
               /\ s.w.user_stake[k].pending_rewards >= user_stake[k].pending_rewards
               /\ s.w.user_stake[k].pending_rewards <= U64_MAX
        /\ u.err = "Ok" =>
               /\ u.w.user_stake[k].pending_rewards >= user_stake[k].pending_rewards
               /\ u.w.user_stake[k].pending_rewards <= U64_MAX

DepositFatal(k, a) ==
    LET d == deposit_reflections(World, k, a)
    IN  /\ Atomic(d)
        /\ config.pending_reflections + a > U64_MAX => Refused(d)
        /\ d.err = "Ok" =>
               /\ d.w.config.pending_reflections = config.pending_reflections + a
               /\ ApsLeq(config.accumulated_per_share, d.w.config.accumulated_per_share)
               /\ ApsLeq(d.w.config.accumulated_per_share, ApsMax)

\* deposit_reflections of a small amount by k refuses when the share it
\* adds would take the accumulator beyond its width.
AccumulatorFatal(k, a) ==
    (/\ config.total_staked > 0
     /\ ~ApsLeq(ApsAdd(config.accumulated_per_share,
                       reward_per_share(a, config.total_staked)), ApsMax))
        => Refused(deposit_reflections(World, k, a))

\* claim_reflections by k pays out what it adds to the two claim totals,
\* both within their width, and takes it from pending_reflections down to
\* zero at the lowest.
ClaimFatal(k) ==
    LET c    == claim_reflections(World, k, k)
        paid == c.w.tokens[k] - tokens[k]
    IN  /\ Atomic(c)
        /\ c.err = "Ok" =>
               /\ paid > 0
               /\ c.w.user_stake[k].total_claimed = user_stake[k].total_claimed + paid
               /\ c.w.user_stake[k].total_claimed <= U64_MAX
               /\ c.w.config.total_reflections_distributed
                      = config.total_reflections_distributed + paid
               /\ c.w.config.total_reflections_distributed <= U64_MAX
               /\ c.w.config.pending_reflections
                      = IF config.pending_reflections >= paid
                        THEN config.pending_reflections - paid ELSE 0

\* burn_tokens, airdrop, allocate_to_lp and record_lp_deployment: a sum or a
\* product beyond the width refuses, and a call that goes through has added
\* exactly.
BurnFatal(k, a) ==
    LET b == burn_tokens(World, k, a)
    IN  /\ Atomic(b)
        /\ (burn_record.total_burned + a > U64_MAX \/ burn_record.burn_count + 1 > U64_MAX)
               => Refused(b)
        /\ b.err = "Ok" =>
               /\ b.w.burn_record.total_burned = burn_record.total_burned + a
               /\ b.w.burn_record.burn_count = burn_record.burn_count + 1

AirdropFatal(k, n, a) ==
    LET d == airdrop(World, k, n, a)
    IN  /\ Atomic(d)
        /\ (\/ n * a > U64_MAX
            \/ airdrop_state.total_airdropped + n * a > U64_MAX
            \/ airdrop_state.recipient_count + n > U64_MAX) => Refused(d)
        /\ d.err = "Ok" =>
               /\ d.w.airdrop_state.total_airdropped
                      = airdrop_state.total_airdropped + n * a
               /\ d.w.airdrop_state.recipient_count = airdrop_state.recipient_count + n

LpFatal(k, a) ==
    LET l == allocate_to_lp(World, k, a)
    IN  /\ Atomic(l)
        /\ (lp_vault.total_allocated + a > U64_MAX \/ lp_vault.pending_deployment + a > U64_MAX)
               => Refused(l)
        /\ l.err = "Ok" =>
               /\ l.w.lp_vault.total_allocated = lp_vault.total_allocated + a
               /\ l.w.lp_vault.pending_deployment = lp_vault.pending_deployment + a
        /\ \A t \in LpTokenAmounts, p \in PoolAddresses :
               LET d == record_lp_deployment(World, k, a, t, p)
               IN  /\ Atomic(d)
                   /\ lp_vault.total_deployed + a > U64_MAX => Refused(d)
                   /\ d.err = "Ok" =>
                          d.w.lp_vault.total_deployed = lp_vault.total_deployed + a

OverflowIsFatal ==
    /\ InWidth
    /\ \A k \in Keys :
           /\ ClaimFatal(k)
           /\ \A a \in Amounts : a > 0 => AccumulatorFatal(k, a)
           /\ \A a \in WideAmounts :
                  /\ StakeFatal(k, a)
                  /\ DepositFatal(k, a)
                  /\ BurnFatal(k, a)
                  /\ LpFatal(k, a)
                  /\ \A n \in RecipientCounts : AirdropFatal(k, n, a)

====
